---- MODULE Spec2Model ----
(***************************************************************************)
(* A model of the agent-loop repository: the LangGraph state machine built *)
(* by AgentGraphBuilder (core/agent_graph.py) over AgentState              *)
(* (core/state.py), the AgentLoopManager (core/agent_manager.py) and the   *)
(* MemoryCompactor (core/memory_compactor.py), the tool a skill is         *)
(* converted to (skills/converter.py), and the MCP server manager          *)
(* (mcp/server_manager.py) with its client pool and tool adapter.          *)
(*                                                                         *)
(* The specifications that share the module:                               *)
(*   Spec         one checkpointed conversation thread running the graph   *)
(*   ToolFailSpec the same thread, with MCP tools that can fail            *)
(*   LiveSpec     ToolFailSpec under the compiled graph's scheduling       *)
(*   MgrSpec      register_agent / reload_agent / get_agent, one caller    *)
(*   ConcSpec     the same calls made by two threads for one agent id      *)
(*   TrimSpec     MemoryCompactor.trim_messages on bounded inputs          *)
(*   SkillSpec    one execution of a skill's tool, execute_skill           *)
(*   McpSpec      asyncio tasks calling get_mcp_manager / reset_mcp_manager*)
(*   LifecycleSpec initialize / close / the queries on one MCPServerManager*)
(***************************************************************************)
EXTENDS Integers, Sequences, FiniteSets, TLC

VARIABLES
    \* ---- one conversation thread (AgentState, core/state.py) ----
    messages,          \* AgentState.messages
    intent,            \* AgentState.intent
    current_skill,     \* AgentState.current_skill
    skill_status,      \* AgentState.skill_status
    pc,                \* the node the compiled graph runs next
    turn,              \* number of turns started on the thread
    steps,             \* execute_with_tools runs on the thread so far
    llm_input,         \* the message sequence last passed to the model
    enable_compaction, \* the compaction switch resolved for this agent
    tool_outputs,      \* ToolNode: one slot per pending tool call
    completion_order,  \* ToolNode: the order the invocations finished in
    tools_running,     \* ToolNode: invocations in flight
    last_node,         \* the node that ran last, with what it was given
    \* ---- one AgentLoopManager (core/agent_manager.py) ----
    agents,            \* AgentLoopManager.agents
    agent_configs,     \* AgentLoopManager.agent_configs
    langchain_tools,   \* SkillRegistry.langchain_tools: the loaded skill ids
    registry_loads,    \* how often SkillRegistry.load_all has run
    skills_on_disk,    \* the skill directories under skills_dir
    compiles,          \* how many graphs have been compiled
    ever_registered,   \* the ids register_agent has been called with
    last_call,         \* the manager call made last, with its outcome
    \* ---- one MemoryCompactor (core/memory_compactor.py) ----
    compactor,         \* the compactor's settings
    trim_input,        \* the list given to trim_messages
    trim_result,       \* what trim_messages returned
    \* ---- one execution of execute_skill (skills/converter.py) ----
    skill_pc,          \* where the execution is
    skill_invocations, \* how often chain.ainvoke has been awaited
    skill_response,    \* the response of the last invocation
    skill_pending,     \* the tool calls of that response not yet run
    skill_messages,    \* the local list `messages` of tool results
    skill_result,      \* what execute_skill returned
    skill_log,         \* the responses of all invocations, in order
    skill_chain_input, \* what the last chain.ainvoke was given
    \* ---- the MCP server managers (mcp/server_manager.py) ----
    manager_instance,  \* the module global _manager_instance
    mcp_managers,      \* the MCPServerManager objects constructed so far
    mcp_tasks,         \* the asyncio tasks calling into mcp/server_manager.py
    mcp_returned,      \* what get_mcp_manager returned since the last reset
    \* ---- threads calling into one AgentLoopManager ----
    threads            \* each thread's call, its position and its locals

graphVars == <<messages, intent, current_skill, skill_status, pc, turn, steps,
               llm_input, enable_compaction, tool_outputs, completion_order,
               tools_running, last_node>>

mgrVars == <<agents, agent_configs, langchain_tools, registry_loads,
             skills_on_disk, compiles, ever_registered, last_call>>

trimVars == <<compactor, trim_input, trim_result>>

skillVars == <<skill_pc, skill_invocations, skill_response, skill_pending,
               skill_messages, skill_result, skill_log, skill_chain_input>>

mcpVars == <<manager_instance, mcp_managers, mcp_tasks, mcp_returned>>

concVars == <<threads>>

vars == <<graphVars, mgrVars, trimVars, skillVars, mcpVars, concVars>>

\* ------------------------------------------------------------------ bounds
MaxTurns == 2
MaxSteps == 2
MaxLoads == 2
MaxLen == 4

\* ----------------------------------------------------------- Python values
None == "<None>"

Last(s) == s[Len(s)]

IsPrefix(s, t) == Len(s) <= Len(t) /\ SubSeq(t, 1, Len(s)) = s

Uppers == "ABCDEFGHIJKLMNOPQRSTUVWXYZ"
Lowers == "abcdefghijklmnopqrstuvwxyz"

CharAt(s, i) == SubSeq(s, i, i)

\* str.lower() on one character
LowerChar(c) ==
    IF \E i \in 1..Len(Uppers) : CharAt(Uppers, i) = c
    THEN CharAt(Lowers, CHOOSE i \in 1..Len(Uppers) : CharAt(Uppers, i) = c)
    ELSE c

RECURSIVE lower(_)
lower(s) == IF s = "" THEN "" ELSE LowerChar(CharAt(s, 1)) \o lower(Tail(s))

IsSpace(c) == c = " "

\* str.strip()
RECURSIVE lstrip(_)
lstrip(s) == IF s # "" /\ IsSpace(CharAt(s, 1)) THEN lstrip(Tail(s)) ELSE s

RECURSIVE rstrip(_)
rstrip(s) ==
    IF s # "" /\ IsSpace(CharAt(s, Len(s)))
    THEN rstrip(SubSeq(s, 1, Len(s) - 1))
    ELSE s

strip(s) == rstrip(lstrip(s))

\* Python's  sub in s  on strings
contains(s, sub) ==
    \E i \in 1..(Len(s) - Len(sub) + 1) : SubSeq(s, i, i + Len(sub) - 1) = sub

\* str() of a list holding one string
str_of_list(s) == "['" \o s \o "']"

\* ---------------------------------------------------------------- messages
\* A Python value used as message content: a str, a list holding one str, or
\* any other object (known by its repr).
PyStr(t)  == [kind |-> "str",    text |-> t]
PyList(t) == [kind |-> "list",   text |-> t]
PyObj(t)  == [kind |-> "object", text |-> t]

\* str(v)
py_str(v) ==
    CASE v.kind = "str"  -> v.text
      [] v.kind = "list" -> str_of_list(v.text)
      [] OTHER           -> "<" \o v.text \o ">"

Absent == "<absent>"

NoKwargs == [intent |-> Absent, skill_used |-> Absent, skill_status |-> Absent]

\* langchain_core.messages: SystemMessage / HumanMessage / AIMessage / ToolMessage
SystemMessage(c) ==
    [type |-> "system", content |-> c, tool_calls |-> <<>>,
     tool_call_id |-> "", additional_kwargs |-> NoKwargs]
HumanMessage(c) ==
    [type |-> "human", content |-> c, tool_calls |-> <<>>,
     tool_call_id |-> "", additional_kwargs |-> NoKwargs]
AIMessage(c, tcs, kw) ==
    [type |-> "ai", content |-> c, tool_calls |-> tcs,
     tool_call_id |-> "", additional_kwargs |-> kw]
ToolMessage(c, id) ==
    [type |-> "tool", content |-> c, tool_calls |-> <<>>,
     tool_call_id |-> id, additional_kwargs |-> NoKwargs]

ToolCall(id, name) == [id |-> id, name |-> name]

\* a channel without the reducer: an update overwrites the stored list
add_overwriting(old, update) == update

\* AgentState.messages is Annotated[List[BaseMessage], operator.add]:
\* a node's update is concatenated to the stored list.
add(old, update) == old \o update

\* ---------------------------------------------------------- MemoryCompactor
\* Python's None for the optional integer settings
NoneInt == -1

ToolCallOverhead == 50
CharsPerToken == 4
DefaultContextWindow == 8000

Max(a, b) == IF a >= b THEN a ELSE b

\* seq[-k:]  (k >= 0; -0 is 0, so seq[-0:] is the whole list)
slice_last(seq, k) ==
    IF k = 0 THEN seq ELSE SubSeq(seq, Max(1, Len(seq) - k + 1), Len(seq))

\* seq[:-k]  (k >= 0; seq[:-0] is seq[:0], the empty list)
slice_but_last(seq, k) ==
    IF k = 0 THEN <<>> ELSE SubSeq(seq, 1, Len(seq) - k)

isSystem(m) == m.type = "system"
notSystem(m) == m.type # "system"

\* [m for m in messages if isinstance(m, SystemMessage)]
system_of(msgs) == SelectSeq(msgs, isSystem)

\* [m for m in messages if not isinstance(m, SystemMessage)]
non_system_of(msgs) == SelectSeq(msgs, notSystem)

\* MemoryCompactor.count_tokens
RECURSIVE count_tokens(_)
count_tokens(msgs) ==
    IF msgs = <<>> THEN 0
    ELSE LET msg == Head(msgs)
             content == IF msg.content.kind = "str" THEN msg.content.text
                        ELSE py_str(msg.content)
         IN (Len(content) \div CharsPerToken)
            + (IF msg.tool_calls # <<>>
               THEN Len(msg.tool_calls) * ToolCallOverhead ELSE 0)
            + count_tokens(Tail(msgs))

\* MemoryCompactor.__init__: max_tokens None means the model's context window;
\* the models used here are not in the table, so the default applies.
compactor_max_tokens(c) ==
    IF c.max_tokens = NoneInt THEN DefaultContextWindow ELSE c.max_tokens

\* MemoryCompactor._trim_sliding_window
trim_sliding_window(c, msgs) ==
    LET max_msgs == IF c.max_messages # NoneInt /\ c.max_messages # 0
                    THEN c.max_messages ELSE c.keep_last_n_messages
        system_messages == system_of(msgs)
        other_messages  == non_system_of(msgs)
        result == IF c.keep_system_message THEN system_messages ELSE <<>>
    IN result \o slice_last(other_messages, max_msgs)

\* the loop of _trim_token_aware over reversed(middle_messages), from the
\* middle message at index i down: what result.insert(0, msg) puts in front
RECURSIVE readmit(_, _, _, _)
readmit(middle, i, current_tokens, available_tokens) ==
    IF i = 0 THEN <<>>
    ELSE LET msg_tokens == count_tokens(<<middle[i]>>)
         IN IF current_tokens + msg_tokens <= available_tokens
            THEN readmit(middle, i - 1, current_tokens + msg_tokens,
                         available_tokens) \o <<middle[i]>>
            ELSE <<>>

\* the loop with `continue` for `break`: an older message that fits is
\* admitted past one that does not
RECURSIVE readmit_skipping(_, _, _, _)
readmit_skipping(middle, i, current_tokens, available_tokens) ==
    IF i = 0 THEN <<>>
    ELSE LET msg_tokens == count_tokens(<<middle[i]>>)
         IN IF current_tokens + msg_tokens <= available_tokens
            THEN readmit_skipping(middle, i - 1, current_tokens + msg_tokens,
                                  available_tokens) \o <<middle[i]>>
            ELSE readmit_skipping(middle, i - 1, current_tokens, available_tokens)

trim_token_aware_skipping(c, msgs) ==
    LET system_messages == system_of(msgs)
        other_messages  == non_system_of(msgs)
        result0 == IF c.keep_system_message THEN system_messages ELSE <<>>
        system_tokens == IF c.keep_system_message
                         THEN count_tokens(system_messages) ELSE 0
        recent_messages == slice_last(other_messages, c.keep_last_n_messages)
        recent_tokens == count_tokens(recent_messages)
        available_tokens == compactor_max_tokens(c) - system_tokens - recent_tokens
        middle_messages == slice_but_last(other_messages, c.keep_last_n_messages)
        front == readmit_skipping(middle_messages, Len(middle_messages),
                                  system_tokens, available_tokens)
    IN front \o result0 \o recent_messages

\* the reservation subtracted the wrong way round
trim_token_aware_inverted(c, msgs) ==
    LET system_messages == system_of(msgs)
        other_messages  == non_system_of(msgs)
        result0 == IF c.keep_system_message THEN system_messages ELSE <<>>
        system_tokens == IF c.keep_system_message
                         THEN count_tokens(system_messages) ELSE 0
        recent_messages == slice_last(other_messages, c.keep_last_n_messages)
        recent_tokens == count_tokens(recent_messages)
        available_tokens == system_tokens + recent_tokens - compactor_max_tokens(c)
        middle_messages == slice_but_last(other_messages, c.keep_last_n_messages)
        front == readmit(middle_messages, Len(middle_messages),
                         system_tokens, available_tokens)
    IN front \o result0 \o recent_messages

\* MemoryCompactor._trim_token_aware
trim_token_aware(c, msgs) ==
    LET system_messages == system_of(msgs)
        other_messages  == non_system_of(msgs)
        result0 == IF c.keep_system_message THEN system_messages ELSE <<>>
        system_tokens == IF c.keep_system_message
                         THEN count_tokens(system_messages) ELSE 0
        recent_messages == slice_last(other_messages, c.keep_last_n_messages)
        recent_tokens == count_tokens(recent_messages)
        available_tokens == compactor_max_tokens(c) - system_tokens - recent_tokens
        middle_messages == slice_but_last(other_messages, c.keep_last_n_messages)
        front == readmit(middle_messages, Len(middle_messages),
                         system_tokens, available_tokens)
    IN front \o result0 \o recent_messages

\* the token-aware pass run on the caller's list instead of the window
trim_hybrid_on_input(c, msgs) ==
    LET trimmed == trim_sliding_window(c, msgs)
    IN IF count_tokens(trimmed) > compactor_max_tokens(c)
       THEN trim_token_aware(c, msgs)
       ELSE trimmed

\* MemoryCompactor._trim_hybrid
trim_hybrid(c, msgs) ==
    LET trimmed == trim_sliding_window(c, msgs)
    IN IF count_tokens(trimmed) > compactor_max_tokens(c)
       THEN trim_token_aware(c, trimmed)
       ELSE trimmed

\* MemoryCompactor._create_summary: the SystemMessage built from the model's
\* summary text, or None when the invocation raises
SummaryText == "sum"
create_summary(msgs, llm_ok) ==
    IF llm_ok
    THEN <<SystemMessage(PyStr("[Summary of previous conversation]: " \o SummaryText))>>
    ELSE <<>>

\* MemoryCompactor._trim_with_summary, as run when its coroutine is awaited
trim_with_summary(c, msgs, llm_ok) ==
    IF Len(msgs) <= c.keep_last_n_messages THEN msgs
    ELSE LET system_messages == system_of(msgs)
             old_messages    == slice_but_last(msgs, c.keep_last_n_messages)
             recent_messages == slice_last(msgs, c.keep_last_n_messages)
             result0 == IF c.keep_system_message THEN system_messages ELSE <<>>
             messages_to_summarize == non_system_of(old_messages)
             summary == IF messages_to_summarize # <<>>
                        THEN create_summary(messages_to_summarize, llm_ok)
                        ELSE <<>>
         IN result0 \o summary \o recent_messages

\* What trim_messages hands back: a list, or (for the summary strategy, whose
\* method is a coroutine function called without await) a coroutine object.
ListResult(msgs) == [kind |-> "list", msgs |-> msgs]
CoroutineResult(msgs) == [kind |-> "coroutine", msgs |-> msgs]

\* the budget test with < for <=
trim_messages_strict(c, msgs) ==
    IF msgs = <<>> THEN ListResult(msgs)
    ELSE IF count_tokens(msgs) < compactor_max_tokens(c) THEN ListResult(msgs)
    ELSE CASE c.strategy = "sliding_window" -> ListResult(trim_sliding_window(c, msgs))
           [] c.strategy = "token_aware"    -> ListResult(trim_token_aware(c, msgs))
           [] c.strategy = "summary"        -> CoroutineResult(msgs)
           [] c.strategy = "hybrid"         -> ListResult(trim_hybrid(c, msgs))
           [] OTHER                         -> ListResult(trim_token_aware(c, msgs))

\* MemoryCompactor.trim_messages (current_tokens is None: it is counted)
trim_messages(c, msgs) ==
    IF msgs = <<>> THEN ListResult(msgs)
    ELSE IF count_tokens(msgs) <= compactor_max_tokens(c) THEN ListResult(msgs)
    ELSE CASE c.strategy = "sliding_window" -> ListResult(trim_sliding_window(c, msgs))
           [] c.strategy = "token_aware"    -> ListResult(trim_token_aware(c, msgs))
           [] c.strategy = "summary"        -> CoroutineResult(msgs)
           [] c.strategy = "hybrid"         -> ListResult(trim_hybrid(c, msgs))
           [] OTHER                         -> ListResult(trim_token_aware(c, msgs))

\* the strategies working on the caller's list itself
argument_after_trim_in_place(c, msgs) ==
    IF c.strategy = "summary" THEN trim_with_summary(c, msgs, TRUE)
    ELSE trim_messages(c, msgs).msgs

\* The caller's list once a strategy has run on it. Every strategy reads
\* `messages` through list comprehensions and slices, which build new lists;
\* the lists it extends or inserts into are those: `result` is the
\* comprehension's system_messages (sliding window), system_messages.copy()
\* (token-aware, summary) or a new []. `messages` itself is only ever returned.
argument_after_trim(c, msgs) == msgs

\* ------------------------------------------------------- the graph's inputs
\* What a model invocation returns: an AIMessage or some other object, with
\* or without a content attribute, with a tool_calls attribute that is absent,
\* None, a list (whose elements may be None) or something else.
Response(is_ai, has_content, content, repr, tc_kind, tcs) ==
    [is_ai |-> is_ai, has_content |-> has_content, content |-> content,
     repr |-> repr, tc_kind |-> tc_kind, tool_calls |-> tcs]

NoResponse == Response(FALSE, FALSE, PyStr(""), "", "absent", <<>>)

NoneCall == ToolCall(None, None)

\* the tools of the agent: ToolNode gets mcp_tools, the model is bound to
\* skill_tools + mcp_tools
mcp_tools == <<"read_file">>
skill_tools == <<"code_review">>

Range(seq) == {seq[i] : i \in DOMAIN seq}

CallA == ToolCall("call_a", "read_file")
CallB == ToolCall("call_b", "code_review")
CallC == ToolCall("call_c", "read_file")

ClassifierResponses ==
    { Response(TRUE, TRUE, PyStr(t), "", "list", <<>>) :
        t \in {"", "just chatting", "this needs Code_Review help",
               " data_analysis ", "review", "code_review"} }
    \cup { Response(FALSE, TRUE, PyList("file_operation"), "", "absent", <<>>),
           Response(FALSE, FALSE, PyStr(""), "Mock", "absent", <<>>) }

ExecResponses ==
    { Response(TRUE, TRUE, PyStr("done"), "", "list", <<>>),
      Response(TRUE, TRUE, PyStr(""), "", "list", <<CallA, CallB, CallC>>),
      Response(FALSE, FALSE, PyStr(""), "Mock", "absent", <<>>),
      Response(FALSE, TRUE, PyObj("Mock"), "Mock", "list", <<NoneCall>>),
      Response(FALSE, TRUE, PyStr("use"), "Mock", "list", <<CallA>>),
      Response(FALSE, TRUE, PyStr("odd"), "Mock", "other", <<>>),
      Response(FALSE, TRUE, PyStr("nil"), "Mock", "none", <<>>) }

HumanContents == {"hello"}

\* the compaction settings asked for this agent (a small budget, so that a
\* history of a few messages is over it)
AgentCompaction ==
    [strategy |-> "sliding_window", max_tokens |-> 1, max_messages |-> 2,
     keep_system_message |-> TRUE, keep_last_n_messages |-> 10]

\* the skills the registry holds, in registration order
LoadedSkills ==
    << [id |-> "code_review", description |-> "Review code for quality: code_review"],
       [id |-> "data_analysis", description |-> "data_analysis"] >>

\* the attributes of skills.registry.SkillRegistry
SkillRegistryAttrs ==
    {"llm", "mcp_tools", "skills_dir", "skills", "langchain_tools",
     "load_all", "load_and_convert", "register", "get_skill",
     "get_langchain_tool", "get_all_langchain_tools", "list_skills", "reload",
     "get_tools_by_skill_ids", "get_skills_by_ids"}

\* ------------------------------------------------------------ the graph
NodeRecord(node, response, raised) ==
    [node |-> node, response |-> response, raised |-> raised]

PendingSlot == [done |-> FALSE, invoked |-> FALSE, failed |-> FALSE,
                msg |-> ToolMessage(PyStr(""), "")]

skill_intents == <<"code_review", "data_analysis", "file_operation">>

\* routing on an intent that equals a keyword instead of containing one
should_use_skill_exact(i) ==
    IF i = None \/ i = "" THEN "direct"
    ELSE IF \E k \in DOMAIN skill_intents : i = skill_intents[k]
         THEN "skill" ELSE "direct"

\* routing on containment in either direction
should_use_skill_either_way(i) ==
    IF i = None \/ i = "" THEN "direct"
    ELSE IF \E k \in DOMAIN skill_intents :
               contains(i, skill_intents[k]) \/ contains(skill_intents[k], i)
         THEN "skill" ELSE "direct"

\* AgentGraphBuilder._should_use_skill
should_use_skill(i) ==
    IF i = None \/ i = "" THEN "direct"
    ELSE IF \E k \in DOMAIN skill_intents : contains(i, skill_intents[k])
         THEN "skill" ELSE "direct"

\* looking for tool calls in the whole history instead of the last message
should_call_tools_any(msgs) ==
    IF \E i \in DOMAIN msgs : msgs[i].tool_calls # <<>> THEN "tools" ELSE "end"

\* AgentGraphBuilder._should_call_tools
should_call_tools(msgs) ==
    IF Last(msgs).tool_calls # <<>> THEN "tools" ELSE "end"

\* the text _classify_intent extracts from the model's response
classifier_content(r) ==
    IF r.has_content
    THEN (IF r.content.kind = "str" THEN r.content.text ELSE py_str(r.content))
    ELSE py_str(PyObj(r.repr))

\* the response's fields taken as they are
normalize_response_unchecked(r) == AIMessage(r.content, r.tool_calls, NoKwargs)

\* the response returned as it came: an assistant message only when the
\* model answered with one
normalize_response_as_returned(r) ==
    [AIMessage(r.content, r.tool_calls, NoKwargs)
        EXCEPT !.type = IF r.is_ai THEN "ai" ELSE "object"]

\* the AIMessage _execute_with_tools makes of the model's response
normalize_response(r) ==
    IF r.is_ai THEN AIMessage(r.content, r.tool_calls, NoKwargs)
    ELSE LET content ==
                 IF r.has_content
                 THEN (IF r.content.kind \in {"str", "list"} THEN r.content
                       ELSE PyStr(py_str(r.content)))
                 ELSE PyStr(py_str(PyObj(r.repr)))
             tool_calls ==
                 IF r.tc_kind = "list"
                 THEN SelectSeq(r.tool_calls, LAMBDA t : t # NoneCall)
                 ELSE <<>>
         IN AIMessage(content, tool_calls, NoKwargs)

\* the message sequence _execute_with_tools passes to llm_with_tools.invoke
model_input(msgs) == msgs

\* str(e) of the exception MCPClientPool.call_tool raises
ToolFailure == "boom"

\* MCPToolAdapter's tool_func: the text of the result, or, when
\* mcp_pool.call_tool raises, the text "Error: " + str(e)
tool_func(name, ok) == IF ok THEN name \o ":ok" ELSE "Error: " \o ToolFailure

\* a tool function that lets the exception's text through as the result
run_one_unmarked(call, ok) ==
    IF call.name \in Range(mcp_tools)
    THEN [done |-> TRUE, invoked |-> TRUE, failed |-> ~ok,
          msg |-> ToolMessage(PyStr(IF ok THEN call.name \o ":ok" ELSE ToolFailure),
                              call.id)]
    ELSE [done |-> TRUE, invoked |-> FALSE, failed |-> FALSE,
          msg |-> ToolMessage(PyStr("Error: " \o call.name \o " is not a valid tool"),
                              call.id)]

\* ToolNode(self.mcp_tools) on one tool call: the tool is run when ToolNode
\* has a tool of that name (the call to the MCP server succeeds or raises),
\* else the result is an error message
run_one(call, ok) ==
    IF call.name \in Range(mcp_tools)
    THEN [done |-> TRUE, invoked |-> TRUE, failed |-> ~ok,
          msg |-> ToolMessage(PyStr(tool_func(call.name, ok)), call.id)]
    ELSE [done |-> TRUE, invoked |-> FALSE, failed |-> FALSE,
          msg |-> ToolMessage(PyStr("Error: " \o call.name \o " is not a valid tool"),
                              call.id)]

\* results collected in the order the invocations finished in
tool_node_output_as_completed(outputs, order) ==
    [i \in DOMAIN outputs |-> outputs[order[i]].msg]

\* the ToolMessages ToolNode returns, given the finished slots and the order
\* the invocations finished in
tool_node_output(outputs, order) == [i \in DOMAIN outputs |-> outputs[i].msg]

GraphInit ==
    /\ messages = <<>>
    /\ intent = None
    /\ current_skill = None
    /\ skill_status = None
    /\ pc = "END"
    /\ turn = 0
    /\ steps = 0
    /\ llm_input = <<>>
    /\ enable_compaction \in BOOLEAN
    /\ tool_outputs = <<>>
    /\ completion_order = <<>>
    /\ tools_running = FALSE
    /\ last_node = NodeRecord("none", NoResponse, "")

\* compiled.invoke(input, config) on the checkpointed thread: the input's
\* messages go through the reducer, its other keys (when given) overwrite
StartTurn(content, full) ==
    /\ pc \in {"END", "failed"}
    /\ turn < MaxTurns
    /\ full \/ turn > 0
    /\ messages' = add(messages, <<HumanMessage(PyStr(content))>>)
    /\ IF full
       THEN intent' = None /\ current_skill' = None /\ skill_status' = None
       ELSE UNCHANGED <<intent, current_skill, skill_status>>
    /\ pc' = "classify_intent"
    /\ turn' = turn + 1
    /\ last_node' = NodeRecord("START", NoResponse, "")
    /\ UNCHANGED <<steps, llm_input, enable_compaction, tool_outputs,
                   completion_order, tools_running>>
    /\ UNCHANGED <<mgrVars, trimVars, skillVars, mcpVars, concVars>>

\* a node under a retry policy: the exception is noted and the node runs again
NodeRaises_retried(node, exc) ==
    /\ pc = node
    /\ pc' = node
    /\ last_node' = NodeRecord(node, NoResponse, exc)
    /\ UNCHANGED <<messages, intent, current_skill, skill_status, turn, steps,
                   llm_input, enable_compaction, tool_outputs,
                   completion_order, tools_running>>
    /\ UNCHANGED <<mgrVars, trimVars, skillVars, mcpVars, concVars>>

\* a node whose code raises: the turn ends with the exception, the node
\* writes nothing
NodeRaises(node, exc) ==
    /\ pc = node
    /\ pc' = "failed"
    /\ last_node' = NodeRecord(node, NoResponse, exc)
    /\ UNCHANGED <<messages, intent, current_skill, skill_status, turn, steps,
                   llm_input, enable_compaction, tool_outputs,
                   completion_order, tools_running>>
    /\ UNCHANGED <<mgrVars, trimVars, skillVars, mcpVars, concVars>>

\* AgentGraphBuilder._classify_intent, then the conditional edge
classify_intent(r) ==
    /\ pc = "classify_intent"
    /\ LET content == classifier_content(r)
           new_intent == IF content # "" THEN lower(strip(content)) ELSE ""
       IN /\ intent' = new_intent
          /\ pc' = IF should_use_skill(new_intent) = "skill"
                   THEN "select_skill" ELSE "execute_with_tools"
    /\ last_node' = NodeRecord("classify_intent", r, "")
    /\ UNCHANGED <<messages, current_skill, skill_status, turn, steps,
                   llm_input, enable_compaction, tool_outputs,
                   completion_order, tools_running>>
    /\ UNCHANGED <<mgrVars, trimVars, skillVars, mcpVars, concVars>>

classify_intent_raises ==
    /\ pc = "classify_intent"
    /\ NodeRaises("classify_intent", "LLMError")

\* the first skill of available_skills whose description matches, or None
RECURSIVE first_match(_, _)
first_match(skills, i) ==
    IF skills = <<>> THEN None
    ELSE LET skill_desc == lower(Head(skills).description)
         IN IF contains(skill_desc, i) \/ contains(i, skill_desc)
            THEN Head(skills).id
            ELSE first_match(Tail(skills), i)

\* _select_skill on a registry that has a list() method: the selection is
\* written to the state
select_skill_listing ==
    /\ pc = "select_skill"
    /\ LET available_skills ==
               SelectSeq(LoadedSkills, LAMBDA sk : sk.id \in Range(skill_tools))
           selected == first_match(available_skills, intent)
       IN /\ current_skill' = selected
          /\ skill_status' = IF selected # None THEN "pending" ELSE None
    /\ pc' = "execute_with_tools"
    /\ last_node' = NodeRecord("select_skill", NoResponse, "")
    /\ UNCHANGED <<messages, intent, turn, steps, llm_input, enable_compaction,
                   tool_outputs, completion_order, tools_running>>
    /\ UNCHANGED <<mgrVars, trimVars, skillVars, mcpVars, concVars>>

\* AgentGraphBuilder._select_skill: self.skill_registry.list() is looked up
\* on the registry first
select_skill ==
    /\ pc = "select_skill"
    /\ IF "list" \in SkillRegistryAttrs
       THEN LET available_skills ==
                    SelectSeq(LoadedSkills, LAMBDA sk : sk.id \in Range(skill_tools))
                selected == first_match(available_skills, intent)
            IN /\ current_skill' = selected
               /\ skill_status' = IF selected # None THEN "pending" ELSE None
               /\ pc' = "execute_with_tools"
               /\ last_node' = NodeRecord("select_skill", NoResponse, "")
       ELSE /\ pc' = "failed"
            /\ last_node' = NodeRecord("select_skill", NoResponse, "AttributeError")
            /\ UNCHANGED <<current_skill, skill_status>>
    /\ UNCHANGED <<messages, intent, turn, steps, llm_input, enable_compaction,
                   tool_outputs, completion_order, tools_running>>
    /\ UNCHANGED <<mgrVars, trimVars, skillVars, mcpVars, concVars>>

\* an execute_with_tools whose loop is capped: from the second model call of
\* the thread on the turn is sent to format_result whatever the response
execute_with_tools_capped(r) ==
    /\ pc = "execute_with_tools"
    /\ steps < MaxSteps
    /\ steps' = steps + 1
    /\ llm_input' = model_input(messages)
    /\ messages' = add(messages, <<normalize_response(r)>>)
    /\ pc' = IF should_call_tools(messages') = "tools" /\ steps' < 2
             THEN "tools" ELSE "format_result"
    /\ last_node' = NodeRecord("execute_with_tools", r, "")
    /\ UNCHANGED <<intent, current_skill, skill_status, turn, enable_compaction,
                   tool_outputs, completion_order, tools_running>>
    /\ UNCHANGED <<mgrVars, trimVars, skillVars, mcpVars, concVars>>

\* AgentGraphBuilder._execute_with_tools, then the conditional edge
execute_with_tools(r) ==
    /\ pc = "execute_with_tools"
    /\ steps < MaxSteps
    /\ steps' = steps + 1
    /\ llm_input' = model_input(messages)
    /\ messages' = add(messages, <<normalize_response(r)>>)
    /\ pc' = IF should_call_tools(messages') = "tools" THEN "tools" ELSE "format_result"
    /\ last_node' = NodeRecord("execute_with_tools", r, "")
    /\ UNCHANGED <<intent, current_skill, skill_status, turn, enable_compaction,
                   tool_outputs, completion_order, tools_running>>
    /\ UNCHANGED <<mgrVars, trimVars, skillVars, mcpVars, concVars>>

execute_with_tools_raises ==
    /\ steps < MaxSteps
    /\ NodeRaises("execute_with_tools", "LLMError")

\* the tools node: ToolNode starts one invocation per pending tool call
tools_start ==
    /\ pc = "tools"
    /\ ~tools_running
    /\ tools_running' = TRUE
    /\ tool_outputs' = [i \in DOMAIN Last(messages).tool_calls |-> PendingSlot]
    /\ completion_order' = <<>>
    /\ last_node' = NodeRecord("tools_start", NoResponse, "")
    /\ UNCHANGED <<messages, intent, current_skill, skill_status, pc, turn,
                   steps, llm_input, enable_compaction>>
    /\ UNCHANGED <<mgrVars, trimVars, skillVars, mcpVars, concVars>>

\* one invocation finishes; they finish in any order, each with the MCP
\* server's answer or with its failure
tool_done(i, ok) ==
    /\ pc = "tools"
    /\ tools_running
    /\ i \in DOMAIN tool_outputs
    /\ ~tool_outputs[i].done
    /\ ok \/ Last(messages).tool_calls[i].name \in Range(mcp_tools)
    /\ tool_outputs' = [tool_outputs EXCEPT
                           ![i] = run_one(Last(messages).tool_calls[i], ok)]
    /\ completion_order' = Append(completion_order, i)
    /\ last_node' = NodeRecord("tool_done", NoResponse, "")
    /\ UNCHANGED <<messages, intent, current_skill, skill_status, pc, turn,
                   steps, llm_input, enable_compaction, tools_running>>
    /\ UNCHANGED <<mgrVars, trimVars, skillVars, mcpVars, concVars>>

\* all invocations have finished: the node's update is written and the edge
\* tools -> execute_with_tools is taken
tools_finish ==
    /\ pc = "tools"
    /\ tools_running
    /\ \A i \in DOMAIN tool_outputs : tool_outputs[i].done
    /\ messages' = add(messages, tool_node_output(tool_outputs, completion_order))
    /\ pc' = "execute_with_tools"
    /\ tools_running' = FALSE
    /\ last_node' = NodeRecord("tools", NoResponse, "")
    /\ UNCHANGED <<intent, current_skill, skill_status, turn, steps, llm_input,
                   enable_compaction, tool_outputs, completion_order>>
    /\ UNCHANGED <<mgrVars, trimVars, skillVars, mcpVars, concVars>>

\* a format_result that passes the last message on without the annotations
format_result_unannotated ==
    /\ pc = "format_result"
    /\ messages' = add(messages, <<AIMessage(Last(messages).content, <<>>, NoKwargs)>>)
    /\ pc' = "END"
    /\ last_node' = NodeRecord("format_result", NoResponse, "")
    /\ UNCHANGED <<intent, current_skill, skill_status, turn, steps, llm_input,
                   enable_compaction, tool_outputs, completion_order,
                   tools_running>>
    /\ UNCHANGED <<mgrVars, trimVars, skillVars, mcpVars, concVars>>

\* AgentGraphBuilder._format_result, then the edge to END
format_result ==
    /\ pc = "format_result"
    /\ LET last_message == Last(messages)
       IN messages' = add(messages,
              <<AIMessage(last_message.content, <<>>,
                          [intent |-> intent, skill_used |-> current_skill,
                           skill_status |-> skill_status])>>)
    /\ pc' = "END"
    /\ last_node' = NodeRecord("format_result", NoResponse, "")
    /\ UNCHANGED <<intent, current_skill, skill_status, turn, steps, llm_input,
                   enable_compaction, tool_outputs, completion_order,
                   tools_running>>
    /\ UNCHANGED <<mgrVars, trimVars, skillVars, mcpVars, concVars>>

GraphNext ==
    \/ \E content \in HumanContents, full \in BOOLEAN : StartTurn(content, full)
    \/ \E r \in ClassifierResponses : classify_intent(r)
    \/ classify_intent_raises
    \/ select_skill
    \/ \E r \in ExecResponses : execute_with_tools(r)
    \/ execute_with_tools_raises
    \/ tools_start
    \/ \E i \in 1..3 : tool_done(i, TRUE)
    \/ tools_finish
    \/ format_result

\* the classifier's answers on a thread whose MCP servers may fail: one that
\* routes directly and one that routes to select_skill
FewClassifierResponses ==
    { Response(TRUE, TRUE, PyStr(t), "", "list", <<>>) :
        t \in {"just chatting", "this needs Code_Review help"} }

\* the graph with MCP servers that answer or fail
ToolFailNext ==
    \/ \E content \in HumanContents, full \in BOOLEAN : StartTurn(content, full)
    \/ \E r \in FewClassifierResponses : classify_intent(r)
    \/ classify_intent_raises
    \/ select_skill
    \/ \E r \in ExecResponses : execute_with_tools(r)
    \/ execute_with_tools_raises
    \/ tools_start
    \/ \E i \in 1..3, ok \in BOOLEAN : tool_done(i, ok)
    \/ tools_finish
    \/ format_result

\* --------------------------------------------------------- AgentLoopManager
AgentIds == {"a1", "a2"}
SkillIds == {"code_review", "data_analysis"}

\* Python's None for an optional list
NoneList == <<None>>

Settings(allowed, enable, strategy, max_tokens, max_messages) ==
    [allowed_skills |-> allowed,
     enable_memory_compaction |-> enable,
     memory_compaction_strategy |-> strategy,
     memory_compaction_max_tokens |-> max_tokens,
     memory_compaction_max_messages |-> max_messages]

\* no entry under this id in agent_configs
NoConfig == Settings(NoneList, Absent, Absent, NoneInt, NoneInt)

\* the arguments register_agent is called with
AgentSettings ==
    { Settings(NoneList, None, None, NoneInt, NoneInt),
      Settings(<<"code_review">>, None, None, NoneInt, NoneInt),
      Settings(<<"data_analysis", "missing">>, "True", "sliding_window", NoneInt, 5),
      Settings(NoneList, "True", "token_aware", 2000, NoneInt),
      Settings(<<>>, "True", "bogus", NoneInt, NoneInt),
      Settings(NoneList, "False", "bogus", 100, NoneInt),
      Settings(NoneList, "True", "", 0, 0) }

\* the manager-wide defaults given to AgentLoopManager.__init__
ManagerDefaults ==
    [enable_memory_compaction |-> "False",
     memory_compaction_strategy |-> "token_aware",
     memory_compaction_max_tokens |-> NoneInt,
     memory_compaction_max_messages |-> NoneInt]

\* CompactionStrategy
CompactionStrategies == {"sliding_window", "token_aware", "summary", "hybrid"}

\* the parameters of AgentGraphBuilder.__init__
BuilderInitParams == {"llm", "skill_registry", "mcp_tools", "skill_tools"}

\* the keyword arguments _build_and_compile calls AgentGraphBuilder with
BuilderCallKeywords == {"enable_memory_compaction", "memory_compactor"}

NoHandle == [serial |-> 0, skill_tools |-> <<>>, enable_compaction |-> "False",
             strategy |-> None, max_tokens |-> NoneInt, max_messages |-> NoneInt]

\* SkillRegistry.get_tools_by_skill_ids
get_tools_by_skill_ids(loaded, skill_ids) ==
    SelectSeq(skill_ids, LAMBDA id : id \in loaded)

\* SkillRegistry.get_all_langchain_tools (dict order: the order of insertion,
\* which for the two skills is the order load_all walks the directory in)
get_all_langchain_tools(loaded) ==
    SelectSeq(<<"code_review", "data_analysis">>, LAMBDA id : id \in loaded)

\* the effective settings before any has been resolved
NoResolved == [enable_compaction |-> Absent, strategy |-> Absent,
               max_tokens |-> NoneInt, max_messages |-> NoneInt]

\* _build_and_compile's resolution of the compaction settings: the enable
\* flag and the two limits with  x if x is not None else default , the
\* strategy with  x or default
resolve_settings(cfg, defaults) ==
    [enable_compaction |->
        IF cfg.enable_memory_compaction # None
        THEN cfg.enable_memory_compaction
        ELSE defaults.enable_memory_compaction,
     strategy |->
        IF cfg.memory_compaction_strategy \notin {None, ""}
        THEN cfg.memory_compaction_strategy
        ELSE defaults.memory_compaction_strategy,
     max_tokens |->
        IF cfg.memory_compaction_max_tokens # NoneInt
        THEN cfg.memory_compaction_max_tokens
        ELSE defaults.memory_compaction_max_tokens,
     max_messages |->
        IF cfg.memory_compaction_max_messages # NoneInt
        THEN cfg.memory_compaction_max_messages
        ELSE defaults.memory_compaction_max_messages]

\* AgentLoopManager._build_and_compile: the compiled graph, or what it raises,
\* and the skill tools and the settings it resolved on the way
build_and_compile(cfg, loaded, serial) ==
    LET skill_tools_ ==
            IF cfg.allowed_skills # NoneList /\ cfg.allowed_skills # <<>>
            THEN get_tools_by_skill_ids(loaded, cfg.allowed_skills)
            ELSE get_all_langchain_tools(loaded)
        resolved == resolve_settings(cfg, ManagerDefaults)
    IN IF resolved.enable_compaction = "True"
          /\ resolved.strategy \notin CompactionStrategies
       THEN [raised |-> "ValueError: not a valid CompactionStrategy",
             handle |-> NoHandle, resolved |-> resolved,
             skill_tools |-> skill_tools_]
       ELSE IF ~(BuilderCallKeywords \subseteq BuilderInitParams)
       THEN [raised |-> "TypeError: unexpected keyword argument",
             handle |-> NoHandle, resolved |-> resolved,
             skill_tools |-> skill_tools_]
       ELSE [raised |-> "",
             handle |-> [serial |-> serial, skill_tools |-> skill_tools_,
                         enable_compaction |-> resolved.enable_compaction,
                         strategy |-> resolved.strategy,
                         max_tokens |-> resolved.max_tokens,
                         max_messages |-> resolved.max_messages],
             resolved |-> resolved, skill_tools |-> skill_tools_]

\* reload_agent without its not-found test
has_config_unchecked(configs, agent_id) == TRUE

\* reload_agent's test  agent_id in self.agent_configs
has_config(configs, agent_id) == configs[agent_id] # NoConfig

Call(op, agent_id, args, raised, handle) ==
    [op |-> op, agent_id |-> agent_id, args |-> args, raised |-> raised,
     handle |-> handle, resolved |-> NoResolved, skill_tools |-> NoneList]

MgrInit ==
    /\ agents = [id \in AgentIds |-> NoHandle]
    /\ agent_configs = [id \in AgentIds |-> NoConfig]
    /\ langchain_tools = {"code_review"}
    /\ registry_loads = 0
    /\ skills_on_disk = {"code_review"}
    /\ compiles = 0
    /\ ever_registered = {}
    /\ last_call = Call("none", "", NoConfig, "", NoHandle)

\* AgentLoopManager.register_agent
register_agent(agent_id, args) ==
    /\ ever_registered' = ever_registered \cup {agent_id}
    /\ IF agents[agent_id] # NoHandle
       THEN /\ last_call' = Call("register_agent", agent_id, args, "", agents[agent_id])
            /\ UNCHANGED <<agents, agent_configs, compiles>>
       ELSE LET built == build_and_compile(args, langchain_tools, compiles + 1)
            IN /\ agent_configs' = [agent_configs EXCEPT ![agent_id] = args]
               /\ IF built.raised = ""
                  THEN /\ agents' = [agents EXCEPT ![agent_id] = built.handle]
                       /\ compiles' = compiles + 1
                  ELSE UNCHANGED <<agents, compiles>>
               /\ last_call' = [Call("register_agent", agent_id, args,
                                     built.raised, built.handle)
                                   EXCEPT !.resolved = built.resolved,
                                          !.skill_tools = built.skill_tools]
    /\ UNCHANGED <<langchain_tools, registry_loads, skills_on_disk>>
    /\ UNCHANGED <<graphVars, trimVars, skillVars, mcpVars, concVars>>

\* AgentLoopManager.get_agent
get_agent(agent_id) ==
    /\ last_call' = Call("get_agent", agent_id, NoConfig, "", agents[agent_id])
    /\ UNCHANGED <<agents, agent_configs, langchain_tools, registry_loads,
                   skills_on_disk, compiles, ever_registered>>
    /\ UNCHANGED <<graphVars, trimVars, skillVars, mcpVars, concVars>>

\* AgentLoopManager.reload_agent (the registry has no reload_all, so load_all
\* runs: every skill directory on disk is loaded and registered again)
reload_agent(agent_id) ==
    /\ IF ~has_config(agent_configs, agent_id)
       THEN /\ last_call' = Call("reload_agent", agent_id, NoConfig,
                                 "ValueError: not found", NoHandle)
            /\ UNCHANGED <<agents, agent_configs, langchain_tools, registry_loads,
                           skills_on_disk, compiles, ever_registered>>
       ELSE /\ registry_loads < MaxLoads
            /\ registry_loads' = registry_loads + 1
            /\ langchain_tools' = langchain_tools \cup skills_on_disk
            /\ LET config == agent_configs[agent_id]
                   built == build_and_compile(config, langchain_tools', compiles + 1)
               IN /\ IF built.raised = ""
                     THEN /\ agents' = [agents EXCEPT ![agent_id] = built.handle]
                          /\ compiles' = compiles + 1
                     ELSE UNCHANGED <<agents, compiles>>
                  /\ last_call' = [Call("reload_agent", agent_id, config,
                                        built.raised, built.handle)
                                      EXCEPT !.resolved = built.resolved,
                                          !.skill_tools = built.skill_tools]
            /\ UNCHANGED <<agent_configs, skills_on_disk, ever_registered>>
    /\ UNCHANGED <<graphVars, trimVars, skillVars, mcpVars, concVars>>

\* a skill directory appears under skills_dir
skill_added(skill_id) ==
    /\ skill_id \notin skills_on_disk
    /\ skills_on_disk' = skills_on_disk \cup {skill_id}
    /\ last_call' = Call("skill_added", "", NoConfig, "", NoHandle)
    /\ UNCHANGED <<agents, agent_configs, langchain_tools, registry_loads,
                   compiles, ever_registered>>
    /\ UNCHANGED <<graphVars, trimVars, skillVars, mcpVars, concVars>>

MgrNext ==
    \/ \E id \in AgentIds, args \in AgentSettings : register_agent(id, args)
    \/ \E id \in AgentIds : get_agent(id)
    \/ \E id \in AgentIds : reload_agent(id)
    \/ \E sk \in SkillIds : skill_added(sk)

\* ---------------------------------------------------------- trim_messages
\* the messages histories are made of: a system message and a human message
\* of one token each, a human message of two tokens, and an assistant
\* message carrying one tool call
MessagePool ==
    { SystemMessage(PyStr("sys!")),
      HumanMessage(PyStr("abcd")),
      HumanMessage(PyStr("abcdefgh")),
      AIMessage(PyStr(""), <<CallA>>, NoKwargs) }

Histories == UNION { [1..n -> MessagePool] : n \in 0..MaxLen }

Compactors ==
    [strategy : CompactionStrategies,
     max_tokens : {0, 2, 3, 52},
     max_messages : {NoneInt, 0, 1, 2},
     keep_system_message : BOOLEAN,
     keep_last_n_messages : {0, 1, 2}]

NotRun == [kind |-> "none", msgs |-> <<>>]

NoCompactor ==
    [strategy |-> "token_aware", max_tokens |-> NoneInt, max_messages |-> NoneInt,
     keep_system_message |-> TRUE, keep_last_n_messages |-> 10]

TrimInit ==
    /\ compactor \in Compactors
    /\ trim_input \in Histories
    /\ trim_result = NotRun

\* a call of MemoryCompactor.trim_messages(messages)
TrimCall ==
    /\ trim_result = NotRun
    /\ trim_result' = trim_messages(compactor, trim_input)
    /\ trim_input' = argument_after_trim(compactor, trim_input)
    /\ UNCHANGED compactor
    /\ UNCHANGED <<graphVars, mgrVars, skillVars, mcpVars, concVars>>

\* the caller awaits the coroutine the summary strategy returned; the
\* summarizing model call succeeds or raises
AwaitSummary(llm_ok) ==
    /\ trim_result.kind = "coroutine"
    /\ trim_result' = [kind |-> "awaited",
                       msgs |-> trim_with_summary(compactor, trim_input, llm_ok)]
    /\ trim_input' = argument_after_trim(compactor, trim_input)
    /\ UNCHANGED compactor
    /\ UNCHANGED <<graphVars, mgrVars, skillVars, mcpVars, concVars>>

TrimNext ==
    \/ TrimCall
    \/ \E llm_ok \in BOOLEAN : AwaitSummary(llm_ok)

\* ------------------------------------------------- a skill's tool execution
\* the tools bound to the model inside the skill (filtered_tools)
filtered_tools == <<"read_file">>

\* for _ in range(10)
SkillIterations == 10

\* a call of a tool the skill may use, and one of a tool it may not
SkillCallA == [id |-> "call_a", name |-> "read_file"]
SkillCallB == [id |-> "call_b", name |-> "code_review"]

\* what chain.ainvoke can answer: text without tool calls, an empty or a
\* missing tool_calls attribute, a tool_calls that is no list, one call, two
\* calls of which the first names no tool of filtered_tools
SkillResponses ==
    { Response(TRUE, TRUE, PyStr("answer"), "", "list", <<>>),
      Response(FALSE, TRUE, PyStr("plain"), "Mock", "absent", <<>>),
      Response(FALSE, TRUE, PyStr("odd"), "Mock", "other", <<>>),
      Response(TRUE, TRUE, PyStr(""), "", "list", <<SkillCallA>>),
      Response(TRUE, TRUE, PyStr("thinking"), "", "list", <<SkillCallB, SkillCallA>>) }

\* not tool_calls or not isinstance(tool_calls, (list, tuple))
no_tool_calls(r) == r.tc_kind # "list" \/ r.tool_calls = <<>>

\* the dict appended to `messages` for a tool's result
tool_result(call) ==
    [role |-> "tool", content |-> "ok", tool_call_id |-> call.id]

\* the argument of the tool call that runs the skill
UserInput == "review this"

\* before the first invocation
NoChainInput == [user_input |-> None, tool_results |-> <<>>]

\* chain.ainvoke({"user_input": user_input}): the prompt gets user_input and
\* nothing of the local list `messages`
chain_input(user_input, results) ==
    [user_input |-> user_input, tool_results |-> <<>>]

\* execute_skill(user_input) is called: prompt, tools and chain are set up
execute_skill_start ==
    /\ skill_pc = "idle"
    /\ skill_pc' = "invoke"
    /\ UNCHANGED <<skill_invocations, skill_response, skill_pending,
                   skill_messages, skill_result, skill_log, skill_chain_input>>
    /\ UNCHANGED <<graphVars, mgrVars, trimVars, mcpVars, concVars>>

\* one pass of the loop up to the test on tool_calls: the model is invoked
\* and, without tool calls, its content is returned
skill_invoke(r) ==
    /\ skill_pc = "invoke"
    /\ skill_invocations' = skill_invocations + 1
    /\ skill_response' = r
    /\ skill_log' = Append(skill_log, r)
    /\ skill_chain_input' = chain_input(UserInput, skill_messages)
    /\ IF no_tool_calls(r)
       THEN /\ skill_pc' = "returned"
            /\ skill_result' = r.content.text
            /\ skill_pending' = <<>>
       ELSE /\ skill_pc' = "tools"
            /\ skill_pending' = r.tool_calls
            /\ UNCHANGED skill_result
    /\ UNCHANGED skill_messages
    /\ UNCHANGED <<graphVars, mgrVars, trimVars, mcpVars, concVars>>

\* chain.ainvoke raises: the exception leaves execute_skill
skill_invoke_raises ==
    /\ skill_pc = "invoke"
    /\ skill_invocations' = skill_invocations + 1
    /\ skill_pc' = "raised"
    /\ UNCHANGED <<skill_response, skill_pending, skill_messages, skill_result,
                   skill_log, skill_chain_input>>
    /\ UNCHANGED <<graphVars, mgrVars, trimVars, mcpVars, concVars>>

\* the next tool call of the response: its tool is looked up by name among
\* filtered_tools, awaited and its result appended; a call naming no such
\* tool is skipped
skill_tool_call ==
    /\ skill_pc = "tools"
    /\ skill_pending # <<>>
    /\ LET tool_call == Head(skill_pending)
       IN skill_messages' =
             IF tool_call.name \in Range(filtered_tools)
             THEN Append(skill_messages, tool_result(tool_call))
             ELSE skill_messages
    /\ skill_pending' = Tail(skill_pending)
    /\ UNCHANGED <<skill_pc, skill_invocations, skill_response, skill_result,
                   skill_log, skill_chain_input>>
    /\ UNCHANGED <<graphVars, mgrVars, trimVars, mcpVars, concVars>>

\* tool.ainvoke raises: the exception leaves execute_skill
skill_tool_raises ==
    /\ skill_pc = "tools"
    /\ skill_pending # <<>>
    /\ Head(skill_pending).name \in Range(filtered_tools)
    /\ skill_pc' = "raised"
    /\ UNCHANGED <<skill_invocations, skill_response, skill_pending,
                   skill_messages, skill_result, skill_log, skill_chain_input>>
    /\ UNCHANGED <<graphVars, mgrVars, trimVars, mcpVars, concVars>>

\* a loop without the cap: after the tool calls, always another pass
skill_next_iteration_uncapped ==
    /\ skill_pc = "tools"
    /\ skill_pending = <<>>
    /\ skill_pc' = "invoke"
    /\ UNCHANGED <<skill_invocations, skill_response, skill_pending,
                   skill_messages, skill_result, skill_log, skill_chain_input>>
    /\ UNCHANGED <<graphVars, mgrVars, trimVars, mcpVars, concVars>>

\* the tool calls of the response are done: the next pass of the loop, or,
\* range(10) being exhausted, the return after the loop
skill_next_iteration ==
    /\ skill_pc = "tools"
    /\ skill_pending = <<>>
    /\ IF skill_invocations < SkillIterations
       THEN /\ skill_pc' = "invoke"
            /\ UNCHANGED skill_result
       ELSE /\ skill_pc' = "returned"
            /\ skill_result' = "Skill execution completed"
    /\ UNCHANGED <<skill_invocations, skill_response, skill_pending,
                   skill_messages, skill_log, skill_chain_input>>
    /\ UNCHANGED <<graphVars, mgrVars, trimVars, mcpVars, concVars>>

SkillNext ==
    \/ execute_skill_start
    \/ \E r \in SkillResponses : skill_invoke(r)
    \/ skill_invoke_raises
    \/ skill_tool_call
    \/ skill_tool_raises
    \/ skill_next_iteration

\* ------------------------------------------------ mcp/server_manager.py
\* the MCPServerManager objects that are constructed at most
MaxInstances == 2

InstanceIds == 1..MaxInstances

\* the asyncio tasks that call into the module
TaskIds == 1..2

\* the servers a configuration can enable
ServerIds == {"fs"}

\* the tools MockClient.list_tools announces for a server
server_tools(s) == {s \o "_read_file", s \o "_write_file"}

ToolNames == UNION { server_tools(s) : s \in ServerIds }

\* the config argument: None, or a dict whose "servers" are all enabled
NoMcpConfig == [given |-> FALSE, servers |-> {}]

McpConfigs ==
    {NoMcpConfig} \cup { [given |-> TRUE, servers |-> S] : S \in SUBSET ServerIds }

\* the config_path argument: None, or a path no file exists at
ConfigPaths == {None, "missing.yaml"}

\* a slot no MCPServerManager has been constructed in
NoManager ==
    [created |-> FALSE, config_path |-> None, client_pool |-> FALSE,
     clients |-> {}, tools |-> {}, tool_adapter |-> FALSE,
     initialized |-> FALSE]

\* MCPServerManager.__init__
MCPServerManager(config_path) ==
    [NoManager EXCEPT !.created = TRUE, !.config_path = config_path]

NoMcpResult == [inst |-> 0, items |-> {}]

McpTask(op, pc_, inst, result, raised) ==
    [op |-> op, pc |-> pc_, inst |-> inst, connecting |-> {},
     result |-> result, raised |-> raised]

McpIdle ==
    /\ manager_instance = 0
    /\ mcp_managers = [i \in InstanceIds |-> NoManager]
    /\ mcp_tasks = [t \in TaskIds |-> McpTask("none", "idle", 0, NoMcpResult, "")]
    /\ mcp_returned = {}

\* a task that is not inside a call
at_rest(t) == mcp_tasks[t].pc \in {"idle", "done"}

\* MCPServerManager.initialize up to its await: the manager it leaves, what
\* it raised, and the servers whose connection it awaits
initialize_begin(m, config) ==
    IF m.initialized
    THEN [m |-> m, raised |-> "", connecting |-> {}, completed |-> TRUE]
    ELSE IF ~config.given /\ m.config_path # None
    THEN [m |-> m, raised |-> "FileNotFoundError", connecting |-> {},
          completed |-> FALSE]
    ELSE LET servers_config == IF config.given THEN config.servers ELSE {}
             pooled == [m EXCEPT !.client_pool = TRUE]
         IN IF servers_config # {}
            THEN [m |-> pooled, raised |-> "", connecting |-> servers_config,
                  completed |-> FALSE]
            ELSE [m |-> [pooled EXCEPT !.tool_adapter = TRUE,
                                       !.initialized = TRUE],
                  raised |-> "", connecting |-> {}, completed |-> TRUE]

\* MCPServerManager.initialize after its await
initialized_manager(m) ==
    [m EXCEPT !.tool_adapter = TRUE, !.initialized = TRUE]

\* MCPServerManager.close after its await, the flag left as it was
closed_manager_flag_kept(m) ==
    [m EXCEPT !.clients = {}, !.tools = {}]

\* MCPServerManager.close after its await: MCPClientPool.close has cleared
\* clients and tools, and _initialized is reset
closed_manager(m) ==
    [m EXCEPT !.clients = {}, !.tools = {}, !.initialized = FALSE]

\* the task's position after initialize_begin
after_begin(op, i, b, returned) ==
    IF b.raised # ""
    THEN McpTask(op, "done", i, NoMcpResult, b.raised)
    ELSE IF b.completed
    THEN McpTask(op, "done", i, [inst |-> returned, items |-> {}], "")
    ELSE [McpTask(op, "awaiting_initialize", i, NoMcpResult, "")
             EXCEPT !.connecting = b.connecting]

\* get_mcp_manager up to its first await (or to its return)
get_mcp_manager(t, config_path, config) ==
    /\ at_rest(t)
    /\ IF manager_instance = 0
       THEN \E i \in InstanceIds :
              /\ ~mcp_managers[i].created
              /\ \A j \in 1..(i - 1) : mcp_managers[j].created
              /\ LET b == initialize_begin(MCPServerManager(config_path), config)
                 IN /\ manager_instance' = i
                    /\ mcp_managers' = [mcp_managers EXCEPT ![i] = b.m]
                    /\ mcp_tasks' = [mcp_tasks EXCEPT
                           ![t] = after_begin("get_mcp_manager", i, b, i)]
                    /\ mcp_returned' = IF b.completed
                                       THEN mcp_returned \cup {i}
                                       ELSE mcp_returned
       ELSE /\ mcp_tasks' = [mcp_tasks EXCEPT
                   ![t] = McpTask("get_mcp_manager", "done", manager_instance,
                                  [inst |-> manager_instance, items |-> {}], "")]
            /\ mcp_returned' = mcp_returned \cup {manager_instance}
            /\ UNCHANGED <<manager_instance, mcp_managers>>
    /\ UNCHANGED <<graphVars, mgrVars, trimVars, skillVars, concVars>>

\* MCPClientPool._connect_server, one of the coroutines initialize gathers:
\* the client is stored and its tools are discovered, or the connection
\* fails and False is returned
connect_server(t, s, ok) ==
    /\ mcp_tasks[t].pc = "awaiting_initialize"
    /\ s \in mcp_tasks[t].connecting
    /\ mcp_tasks' = [mcp_tasks EXCEPT ![t].connecting = @ \ {s}]
    /\ LET i == mcp_tasks[t].inst
       IN mcp_managers' =
            IF ok
            THEN [mcp_managers EXCEPT ![i].clients = @ \cup {s},
                                      ![i].tools = @ \cup server_tools(s)]
            ELSE mcp_managers
    /\ UNCHANGED <<manager_instance, mcp_returned>>
    /\ UNCHANGED <<graphVars, mgrVars, trimVars, skillVars, concVars>>

\* initialize resumes when the gathered connections are through; a
\* get_mcp_manager call then returns the module global
initialize_resume(t) ==
    /\ mcp_tasks[t].pc = "awaiting_initialize"
    /\ mcp_tasks[t].connecting = {}
    /\ LET i == mcp_tasks[t].inst
           op == mcp_tasks[t].op
       IN /\ mcp_managers' = [mcp_managers EXCEPT ![i] = initialized_manager(@)]
          /\ IF op = "get_mcp_manager"
             THEN /\ mcp_tasks' = [mcp_tasks EXCEPT
                         ![t] = McpTask(op, "done", i,
                                    [inst |-> manager_instance, items |-> {}], "")]
                  /\ mcp_returned' = mcp_returned \cup {manager_instance}
             ELSE /\ mcp_tasks' = [mcp_tasks EXCEPT
                         ![t] = McpTask(op, "done", i, NoMcpResult, "")]
                  /\ UNCHANGED mcp_returned
    /\ UNCHANGED manager_instance
    /\ UNCHANGED <<graphVars, mgrVars, trimVars, skillVars, concVars>>

\* reset_mcp_manager
reset_mcp_manager ==
    /\ manager_instance # 0
    /\ manager_instance' = 0
    /\ mcp_returned' = {}
    /\ UNCHANGED <<mcp_managers, mcp_tasks>>
    /\ UNCHANGED <<graphVars, mgrVars, trimVars, skillVars, concVars>>

\* MCPServerManager.initialize called on a manager, up to its await
initialize(t, i, config) ==
    /\ at_rest(t)
    /\ mcp_managers[i].created
    /\ LET b == initialize_begin(mcp_managers[i], config)
       IN /\ mcp_managers' = [mcp_managers EXCEPT ![i] = b.m]
          /\ mcp_tasks' = [mcp_tasks EXCEPT ![t] = after_begin("initialize", i, b, 0)]
    /\ UNCHANGED <<manager_instance, mcp_returned>>
    /\ UNCHANGED <<graphVars, mgrVars, trimVars, skillVars, concVars>>

\* MCPServerManager.close up to the await in MCPClientPool.close; with no
\* client to close nothing is awaited and close runs through
close(t, i) ==
    /\ at_rest(t)
    /\ mcp_managers[i].created
    /\ IF mcp_managers[i].client_pool /\ mcp_managers[i].clients # {}
       THEN /\ mcp_tasks' = [mcp_tasks EXCEPT
                   ![t] = McpTask("close", "awaiting_close", i, NoMcpResult, "")]
            /\ UNCHANGED mcp_managers
       ELSE /\ mcp_tasks' = [mcp_tasks EXCEPT
                   ![t] = McpTask("close", "done", i, NoMcpResult, "")]
            /\ mcp_managers' = [mcp_managers EXCEPT ![i] = closed_manager(@)]
    /\ UNCHANGED <<manager_instance, mcp_returned>>
    /\ UNCHANGED <<graphVars, mgrVars, trimVars, skillVars, concVars>>

\* close resumes: the pool is cleared and the flag reset
close_resume(t) ==
    /\ mcp_tasks[t].pc = "awaiting_close"
    /\ LET i == mcp_tasks[t].inst
       IN mcp_managers' = [mcp_managers EXCEPT ![i] = closed_manager(@)]
    /\ mcp_tasks' = [mcp_tasks EXCEPT ![t].pc = "done"]
    /\ UNCHANGED <<manager_instance, mcp_returned>>
    /\ UNCHANGED <<graphVars, mgrVars, trimVars, skillVars, concVars>>

\* MCPServerManager.get_all_tools; convert_all_tools leaves out every tool
\* whose conversion raises
get_all_tools(t, i, converted) ==
    /\ at_rest(t)
    /\ mcp_managers[i].created
    /\ converted \subseteq mcp_managers[i].tools
    /\ mcp_tasks' = [mcp_tasks EXCEPT
          ![t] = McpTask("get_all_tools", "done", i,
                     [inst |-> 0,
                      items |-> IF mcp_managers[i].initialized
                                THEN converted ELSE {}], "")]
    /\ UNCHANGED <<manager_instance, mcp_managers, mcp_returned>>
    /\ UNCHANGED <<graphVars, mgrVars, trimVars, skillVars, concVars>>

\* MCPServerManager.list_servers
list_servers(t, i) ==
    /\ at_rest(t)
    /\ mcp_managers[i].created
    /\ mcp_tasks' = [mcp_tasks EXCEPT
          ![t] = McpTask("list_servers", "done", i,
                     [inst |-> 0,
                      items |-> IF mcp_managers[i].initialized
                                THEN mcp_managers[i].clients ELSE {}], "")]
    /\ UNCHANGED <<manager_instance, mcp_managers, mcp_returned>>
    /\ UNCHANGED <<graphVars, mgrVars, trimVars, skillVars, concVars>>

\* MCPServerManager.call_tool, and MCPClientPool.call_tool behind it: the
\* client answers or raises
call_tool(t, i, tool_name, ok) ==
    /\ at_rest(t)
    /\ mcp_managers[i].created
    /\ mcp_tasks' = [mcp_tasks EXCEPT
          ![t] = IF ~mcp_managers[i].initialized
                 THEN McpTask("call_tool", "done", i, NoMcpResult,
                              "RuntimeError: MCP Server Manager not initialized")
                 ELSE IF tool_name \notin mcp_managers[i].tools
                 THEN McpTask("call_tool", "done", i, NoMcpResult,
                              "ValueError: Tool not found")
                 ELSE IF ~ok
                 THEN McpTask("call_tool", "done", i, NoMcpResult, ToolFailure)
                 ELSE McpTask("call_tool", "done", i,
                              [inst |-> 0, items |-> {tool_name}], "")]
    /\ UNCHANGED <<manager_instance, mcp_managers, mcp_returned>>
    /\ UNCHANGED <<graphVars, mgrVars, trimVars, skillVars, concVars>>

\* the names call_tool is called with: a tool of a server, and an unknown one
CalledToolNames == {"fs_read_file", "no_such_tool"}

\* the singleton: get_mcp_manager and reset_mcp_manager called by the tasks
McpNext ==
    \/ \E t \in TaskIds, p \in ConfigPaths, c \in McpConfigs :
          get_mcp_manager(t, p, c)
    \/ \E t \in TaskIds, s \in ServerIds, ok \in BOOLEAN : connect_server(t, s, ok)
    \/ \E t \in TaskIds : initialize_resume(t)
    \/ reset_mcp_manager

\* one MCPServerManager constructed by its owner, before any call on it
LifecycleInit ==
    /\ manager_instance = 0
    /\ \E p \in ConfigPaths :
          mcp_managers = [i \in InstanceIds |->
                            IF i = 1 THEN MCPServerManager(p) ELSE NoManager]
    /\ mcp_tasks = [t \in TaskIds |-> McpTask("none", "idle", 0, NoMcpResult, "")]
    /\ mcp_returned = {}

\* the life cycle of that manager: the calls the tasks make on it
LifecycleNext ==
    \/ \E t \in TaskIds, c \in McpConfigs : initialize(t, 1, c)
    \/ \E t \in TaskIds, s \in ServerIds, ok \in BOOLEAN : connect_server(t, s, ok)
    \/ \E t \in TaskIds : initialize_resume(t)
    \/ \E t \in TaskIds : close(t, 1)
    \/ \E t \in TaskIds : close_resume(t)
    \/ \E t \in TaskIds, all \in BOOLEAN :
          get_all_tools(t, 1, IF all THEN mcp_managers[1].tools ELSE {})
    \/ \E t \in TaskIds : list_servers(t, 1)
    \/ \E t \in TaskIds, n \in CalledToolNames, ok \in BOOLEAN :
          call_tool(t, 1, n, ok)

\* --------------------------- threads calling into one AgentLoopManager
\* register_agent, reload_agent and get_agent are plain methods without a
\* lock: a thread can be preempted between any two of their statements
ThreadIds == 1..2

\* the calls each thread makes at most
MaxCalls == 2

\* the agent id all threads call with
SharedAgentId == "a1"

\* the arguments the threads register with
ThreadSettings ==
    { Settings(NoneList, None, None, NoneInt, NoneInt),
      Settings(<<"code_review">>, None, None, NoneInt, NoneInt) }

Thread(op, pc_, args, compiled, result, raised, calls) ==
    [op |-> op, pc |-> pc_, args |-> args, compiled |-> compiled,
     result |-> result, raised |-> raised, calls |-> calls]

ConcIdle ==
    threads = [t \in ThreadIds |->
                  Thread("none", "idle", NoConfig, NoHandle, NoHandle, "", 0)]

\* a thread that is not inside a call and may make another
may_call(t) ==
    /\ threads[t].pc \in {"idle", "done"}
    /\ threads[t].calls < MaxCalls

\* register_agent:  if agent_id in self.agents: return self.agents[agent_id]
register_agent_check(t, args) ==
    /\ may_call(t)
    /\ threads' = [threads EXCEPT ![t] =
          IF agents[SharedAgentId] # NoHandle
          THEN Thread("register_agent", "done", args, NoHandle,
                      agents[SharedAgentId], "", @.calls + 1)
          ELSE Thread("register_agent", "save_config", args, NoHandle,
                      NoHandle, "", @.calls + 1)]
    /\ ever_registered' = ever_registered \cup {SharedAgentId}
    /\ UNCHANGED <<agents, agent_configs, langchain_tools, registry_loads,
                   skills_on_disk, compiles, last_call>>
    /\ UNCHANGED <<graphVars, trimVars, skillVars, mcpVars>>

\* register_agent:  self.agent_configs[agent_id] = {...}
register_agent_save_config(t) ==
    /\ threads[t].op = "register_agent"
    /\ threads[t].pc = "save_config"
    /\ agent_configs' = [agent_configs EXCEPT ![SharedAgentId] = threads[t].args]
    /\ threads' = [threads EXCEPT ![t].pc = "compile"]
    /\ UNCHANGED <<agents, langchain_tools, registry_loads, skills_on_disk,
                   compiles, ever_registered, last_call>>
    /\ UNCHANGED <<graphVars, trimVars, skillVars, mcpVars>>

\* register_agent:  compiled = self._build_and_compile(...)
register_agent_compile(t) ==
    /\ threads[t].op = "register_agent"
    /\ threads[t].pc = "compile"
    /\ LET built == build_and_compile(threads[t].args, langchain_tools,
                                      compiles + 1)
       IN IF built.raised = ""
          THEN /\ threads' = [threads EXCEPT ![t].pc = "store",
                                             ![t].compiled = built.handle]
               /\ compiles' = compiles + 1
          ELSE /\ threads' = [threads EXCEPT ![t].pc = "done",
                                             ![t].raised = built.raised]
               /\ UNCHANGED compiles
    /\ UNCHANGED <<agents, agent_configs, langchain_tools, registry_loads,
                   skills_on_disk, ever_registered, last_call>>
    /\ UNCHANGED <<graphVars, trimVars, skillVars, mcpVars>>

\* register_agent and reload_agent:
\*   self.agents[agent_id] = compiled ; return compiled
store_compiled(t) ==
    /\ threads[t].pc = "store"
    /\ agents' = [agents EXCEPT ![SharedAgentId] = threads[t].compiled]
    /\ threads' = [threads EXCEPT ![t].pc = "done",
                                  ![t].result = threads[t].compiled]
    /\ UNCHANGED <<agent_configs, langchain_tools, registry_loads,
                   skills_on_disk, compiles, ever_registered, last_call>>
    /\ UNCHANGED <<graphVars, trimVars, skillVars, mcpVars>>

\* reload_agent:  if agent_id not in self.agent_configs: raise ValueError
reload_agent_check(t) ==
    /\ may_call(t)
    /\ threads' = [threads EXCEPT ![t] =
          IF ~has_config(agent_configs, SharedAgentId)
          THEN Thread("reload_agent", "done", NoConfig, NoHandle, NoHandle,
                      "ValueError: not found", @.calls + 1)
          ELSE Thread("reload_agent", "load_all", NoConfig, NoHandle,
                      NoHandle, "", @.calls + 1)]
    /\ UNCHANGED mgrVars
    /\ UNCHANGED <<graphVars, trimVars, skillVars, mcpVars>>

\* reload_agent:  self.skill_registry.load_all()
reload_agent_load_all(t) ==
    /\ threads[t].op = "reload_agent"
    /\ threads[t].pc = "load_all"
    /\ registry_loads < MaxLoads
    /\ registry_loads' = registry_loads + 1
    /\ langchain_tools' = langchain_tools \cup skills_on_disk
    /\ threads' = [threads EXCEPT ![t].pc = "compile"]
    /\ UNCHANGED <<agents, agent_configs, skills_on_disk, compiles,
                   ever_registered, last_call>>
    /\ UNCHANGED <<graphVars, trimVars, skillVars, mcpVars>>

\* reload_agent:  config = self.agent_configs[agent_id] ;
\*                compiled = self._build_and_compile(...)
reload_agent_compile(t) ==
    /\ threads[t].op = "reload_agent"
    /\ threads[t].pc = "compile"
    /\ LET config == agent_configs[SharedAgentId]
           built == build_and_compile(config, langchain_tools, compiles + 1)
       IN IF built.raised = ""
          THEN /\ threads' = [threads EXCEPT ![t].pc = "store",
                                             ![t].args = config,
                                             ![t].compiled = built.handle]
               /\ compiles' = compiles + 1
          ELSE /\ threads' = [threads EXCEPT ![t].pc = "done",
                                             ![t].args = config,
                                             ![t].raised = built.raised]
               /\ UNCHANGED compiles
    /\ UNCHANGED <<agents, agent_configs, langchain_tools, registry_loads,
                   skills_on_disk, ever_registered, last_call>>
    /\ UNCHANGED <<graphVars, trimVars, skillVars, mcpVars>>

\* get_agent:  return self.agents.get(agent_id)
thread_get_agent(t) ==
    /\ may_call(t)
    /\ threads' = [threads EXCEPT ![t] =
          Thread("get_agent", "done", NoConfig, NoHandle,
                 agents[SharedAgentId], "", @.calls + 1)]
    /\ UNCHANGED mgrVars
    /\ UNCHANGED <<graphVars, trimVars, skillVars, mcpVars>>

\* the next statement of a thread inside register_agent
register_agent_step(t) ==
    /\ threads[t].op = "register_agent"
    /\ threads[t].pc \in {"save_config", "compile", "store"}
    /\ IF threads[t].pc = "save_config" THEN register_agent_save_config(t)
       ELSE IF threads[t].pc = "compile" THEN register_agent_compile(t)
       ELSE store_compiled(t)

\* the next statement of a thread inside reload_agent
reload_agent_step(t) ==
    /\ threads[t].op = "reload_agent"
    /\ threads[t].pc \in {"load_all", "compile", "store"}
    /\ IF threads[t].pc = "load_all" THEN reload_agent_load_all(t)
       ELSE IF threads[t].pc = "compile" THEN reload_agent_compile(t)
       ELSE store_compiled(t)

ConcNext ==
    \/ \E t \in ThreadIds, args \in ThreadSettings : register_agent_check(t, args)
    \/ \E t \in ThreadIds : register_agent_step(t)
    \/ \E t \in ThreadIds : reload_agent_check(t)
    \/ \E t \in ThreadIds : reload_agent_step(t)
    \/ \E t \in ThreadIds : thread_get_agent(t)
    \/ \E sk \in SkillIds : skill_added(sk)

\* ------------------------------------------------------- the specifications
GraphIdle ==
    /\ messages = <<>>
    /\ intent = None
    /\ current_skill = None
    /\ skill_status = None
    /\ pc = "END"
    /\ turn = 0
    /\ steps = 0
    /\ llm_input = <<>>
    /\ enable_compaction = FALSE
    /\ tool_outputs = <<>>
    /\ completion_order = <<>>
    /\ tools_running = FALSE
    /\ last_node = NodeRecord("none", NoResponse, "")

TrimIdle ==
    /\ compactor = NoCompactor
    /\ trim_input = <<>>
    /\ trim_result = NotRun

SkillIdle ==
    /\ skill_pc = "idle"
    /\ skill_invocations = 0
    /\ skill_response = NoResponse
    /\ skill_pending = <<>>
    /\ skill_messages = <<>>
    /\ skill_result = None
    /\ skill_log = <<>>
    /\ skill_chain_input = NoChainInput

\* before execute_skill is called
SkillInit == SkillIdle

\* one conversation thread
Init == GraphInit /\ MgrInit /\ TrimIdle /\ SkillIdle /\ McpIdle /\ ConcIdle

Next == GraphNext

Spec == Init /\ [][Next]_vars

\* one conversation thread whose MCP servers may fail
ToolFailSpec == Init /\ [][ToolFailNext]_vars

\* the same thread under the compiled graph's scheduling: a node that is
\* due runs, and every tool invocation of the tools node comes back
LiveSpec ==
    /\ Init
    /\ [][ToolFailNext]_vars
    /\ WF_vars(tools_start)
    /\ WF_vars(\E i \in 1..3, ok \in BOOLEAN : tool_done(i, ok))
    /\ WF_vars(tools_finish)
    /\ WF_vars(format_result)

\* one manager
MgrSpecInit == GraphIdle /\ MgrInit /\ TrimIdle /\ SkillIdle /\ McpIdle /\ ConcIdle

MgrSpecNext == MgrNext

MgrSpec == MgrSpecInit /\ [][MgrSpecNext]_vars

\* one compactor
TrimSpecInit == GraphIdle /\ MgrInit /\ TrimInit /\ SkillIdle /\ McpIdle /\ ConcIdle

TrimSpecNext == TrimNext

TrimSpec == TrimSpecInit /\ [][TrimSpecNext]_vars

\* one execution of a skill's tool
SkillSpecInit == GraphIdle /\ MgrInit /\ TrimIdle /\ SkillInit /\ McpIdle /\ ConcIdle

SkillSpecNext == SkillNext

SkillSpec == SkillSpecInit /\ [][SkillSpecNext]_vars

\* asyncio tasks calling get_mcp_manager and reset_mcp_manager
McpSpecInit == GraphIdle /\ MgrInit /\ TrimIdle /\ SkillIdle /\ McpIdle /\ ConcIdle

McpSpec == McpSpecInit /\ [][McpNext]_vars

\* the life cycle of one MCPServerManager
LifecycleSpecInit ==
    GraphIdle /\ MgrInit /\ TrimIdle /\ SkillIdle /\ LifecycleInit /\ ConcIdle

LifecycleSpec == LifecycleSpecInit /\ [][LifecycleNext]_vars

\* two threads calling into one AgentLoopManager with the same agent id
ConcSpecInit == GraphIdle /\ MgrInit /\ TrimIdle /\ SkillIdle /\ McpIdle /\ ConcIdle

ConcSpec == ConcSpecInit /\ [][ConcNext]_vars

\* ------------------------------------------------------------------ claims
ranNode(node) == last_node.node = node /\ last_node.raised = ""

\* C1: every step of the graph and every new turn on the thread leaves the
\* previous message list as a prefix of the new one: messages are appended,
\* never removed, replaced or reordered, and keep their roles.
C1_AppendOnlyHistory == [][IsPrefix(messages, messages')]_vars

\* two turns have run to END on the thread
C1_Witness == turn = 2 /\ pc = "END" /\ Len(messages) >= 6

\* C2: once classify_intent has run, the next node is select_skill when the
\* lower-cased classifier output contains code_review, data_analysis or
\* file_operation, and execute_with_tools otherwise (the empty output too).
C2_IntentGatedRouting ==
    ranNode("classify_intent") =>
        LET output == lower(classifier_content(last_node.response))
            hit == \E k \in {"code_review", "data_analysis", "file_operation"} :
                       contains(output, k)
        IN pc = IF hit THEN "select_skill" ELSE "execute_with_tools"

\* the classifier answered with a sentence that holds a keyword in mixed case
C2_Witness ==
    /\ ranNode("classify_intent")
    /\ last_node.response.content = PyStr("this needs Code_Review help")
    /\ pc = "select_skill"

\* C3: once execute_with_tools has run, the next node is tools exactly when
\* the last message of the history carries at least one tool call; a response
\* with an empty tool-call list goes to format_result.
C3_ToolsIffPendingCalls ==
    ranNode("execute_with_tools") =>
        /\ (pc = "tools") <=> (Len(Last(messages).tool_calls) >= 1)
        /\ last_node.response.tool_calls = <<>> => pc = "format_result"
        /\ pc \in {"tools", "format_result"}

\* the model answered without tool calls after a round of tool calls
C3_Witness ==
    /\ ranNode("execute_with_tools")
    /\ steps = 2
    /\ \E i \in DOMAIN messages : messages[i].type = "tool"
    /\ Last(messages).tool_calls = <<>>
    /\ pc = "format_result"

WellFormed(cfg) ==
    cfg.memory_compaction_strategy \in CompactionStrategies \cup {None}

\* C5: a register_agent call for an id that was registered before (with
\* well-formed settings) returns the handle stored under the id, compiles
\* nothing and leaves the stored configuration as the first call left it.
C5_RegisterIdempotent ==
    [][ \A id \in AgentIds :
          (/\ id \in ever_registered
           /\ WellFormed(agent_configs[id])
           /\ last_call'.op = "register_agent"
           /\ last_call'.agent_id = id
           /\ last_call' # last_call)
          => /\ last_call'.raised = ""
             /\ last_call'.handle # NoHandle
             /\ last_call'.handle = agents[id]
             /\ compiles' = compiles
             /\ agent_configs'[id] = agent_configs[id] ]_vars

\* C6: reload_agent for an id register_agent was never called with raises
\* the not-found error and changes neither the compiled agents, nor the stored
\* configurations, nor the skill registry.
C6_ReloadUnknownMutatesNothing ==
    [][ (/\ last_call'.op = "reload_agent"
         /\ last_call'.agent_id \notin ever_registered
         /\ last_call' # last_call)
        => /\ last_call'.raised = "ValueError: not found"
           /\ agents' = agents
           /\ agent_configs' = agent_configs
           /\ langchain_tools' = langchain_tools
           /\ registry_loads' = registry_loads ]_vars

\* reload_agent of an unknown id has raised while another agent has a stored
\* configuration and the skills directory holds a skill the registry lacks
C6_Witness ==
    /\ last_call.op = "reload_agent"
    /\ last_call.raised = "ValueError: not found"
    /\ last_call.agent_id \notin ever_registered
    /\ ever_registered # {}
    /\ skills_on_disk # langchain_tools

\* C7: register_agent for a new id, with or without compaction settings of
\* its own (well-formed ones), compiles a graph, stores it under the id and
\* returns it, so that get_agent(id) returns that handle afterwards.
C7_RegisterCompilesAndStores ==
    /\ (last_call.op = "register_agent" /\ WellFormed(last_call.args))
         => /\ last_call.raised = ""
            /\ last_call.handle # NoHandle
            /\ agents[last_call.agent_id] = last_call.handle
    /\ (/\ last_call.op = "get_agent"
        /\ has_config(agent_configs, last_call.agent_id)
        /\ WellFormed(agent_configs[last_call.agent_id]))
         => last_call.handle # NoHandle

\* C8: reload_agent of a registered id (with well-formed settings) succeeds:
\* it refreshes the registry, recompiles from the stored configuration, puts
\* the new handle under the id and leaves the handles and configurations of
\* the other ids alone.
C8_ReloadReplacesHandle ==
    [][ \A id \in AgentIds :
          (/\ has_config(agent_configs, id)
           /\ WellFormed(agent_configs[id])
           /\ last_call'.op = "reload_agent"
           /\ last_call'.agent_id = id
           /\ last_call' # last_call)
          => /\ last_call'.raised = ""
             /\ registry_loads' = registry_loads + 1
             /\ agents'[id] = last_call'.handle
             /\ agents'[id] # agents[id]
             /\ agent_configs' = agent_configs
             /\ \A other \in AgentIds \ {id} : agents'[other] = agents[other] ]_vars

\* C9: the message sequence execute_with_tools passes to the model is the
\* compactor's trim of the history when compaction is enabled for the agent,
\* and the full history when it is not.
C9_ModelInputIsTrimmed ==
    ranNode("execute_with_tools") =>
        LET history == SubSeq(messages, 1, Len(messages) - 1)
        IN llm_input = IF enable_compaction
                       THEN trim_messages(AgentCompaction, history).msgs
                       ELSE history

\* C10: a history whose estimated tokens are at most max_tokens comes back
\* from trim_messages unchanged, whatever the strategy.
C10_NoTrimWithinBudget ==
    (trim_result # NotRun /\ count_tokens(trim_input) <= compactor.max_tokens)
        => trim_result = ListResult(trim_input)

\* a history exactly on the budget that the sliding window would have cut
C10_Witness ==
    /\ trim_result.kind = "list"
    /\ compactor.strategy = "sliding_window"
    /\ count_tokens(trim_input) = compactor.max_tokens
    /\ trim_sliding_window(compactor, trim_input) # trim_input

\* C11: for every strategy and every input history, the history
\* trim_messages returns (for the summary strategy, the history its coroutine
\* resolves to) has an estimated token count of at most max_tokens.
C11_TrimmedFitsBudget ==
    trim_result.kind \in {"list", "awaited"}
        => count_tokens(trim_result.msgs) <= compactor_max_tokens(compactor)

\* out can be obtained from inp by omitting messages
RECURSIVE IsSubsequence(_, _)
IsSubsequence(out, inp) ==
    IF out = <<>> THEN TRUE
    ELSE IF inp = <<>> THEN FALSE
    ELSE IF Head(out) = Head(inp) THEN IsSubsequence(Tail(out), Tail(inp))
    ELSE IsSubsequence(out, Tail(inp))

isInputMessage(m) == m \in MessagePool

\* C12: for every strategy, the messages of the input that appear in the
\* trimmed output appear there in their input order: the output, without the
\* summary the summarizing strategy inserts, is the input with messages
\* omitted, also when a system message is not the first message.
C12_RetainedOrderPreserved ==
    trim_result.kind \in {"list", "awaited"}
        => IsSubsequence(SelectSeq(trim_result.msgs, isInputMessage), trim_input)

\* the last k elements of seq (none when k = 0)
LastK(seq, k) == SubSeq(seq, Max(1, Len(seq) - k + 1), Len(seq))

\* C13: when the sliding-window strategy runs with max_messages set, it
\* returns the input's system messages (only when keep_system_message is
\* true) followed by the last max_messages non-system messages.
C13_SlidingWindowRetention ==
    ( /\ trim_result.kind = "list"
      /\ compactor.strategy = "sliding_window"
      /\ compactor.max_messages # NoneInt
      /\ count_tokens(trim_input) > compactor_max_tokens(compactor) )
        => trim_result.msgs =
              (IF compactor.keep_system_message THEN system_of(trim_input) ELSE <<>>)
              \o LastK(non_system_of(trim_input), compactor.max_messages)

\* the budgets a compactor's max_tokens is compared with
ComparedBudgets == 0..8 \cup 49..54 \cup 99..104

\* C14: for a fixed history and fixed other settings, the token-aware
\* strategy keeps at least as many messages under any larger max_tokens as
\* it kept under the compactor's max_tokens, both when called through
\* trim_messages and on its own.
C14_TokenAwareMonotone ==
    (trim_result.kind = "list" /\ compactor.strategy = "token_aware")
        => \A t \in ComparedBudgets :
              t >= compactor.max_tokens
                 => LET raised == [compactor EXCEPT !.max_tokens = t]
                    IN /\ Len(trim_messages(raised, trim_input).msgs)
                             >= Len(trim_result.msgs)
                       /\ Len(trim_token_aware(raised, trim_input))
                             >= Len(trim_token_aware(compactor, trim_input))

\* a history trimmed under the compactor's budget of which a larger budget,
\* still below the history's total, keeps strictly more messages
C14_Witness ==
    /\ trim_result.kind = "list"
    /\ compactor.strategy = "token_aware"
    /\ trim_result.msgs # trim_input
    /\ \E t \in ComparedBudgets :
          /\ t > compactor.max_tokens
          /\ count_tokens(trim_input) > t
          /\ Len(trim_messages([compactor EXCEPT !.max_tokens = t], trim_input).msgs)
                > Len(trim_result.msgs)

\* the shape the summarizing strategy is to produce: the system messages,
\* at most one synthesized summary, the last keep_last_n_messages non-system
\* messages
SummaryShape(c, msgs, out) ==
    \E summary \in {<<>>, create_summary(non_system_of(msgs), TRUE)} :
        out = (IF c.keep_system_message THEN system_of(msgs) ELSE <<>>)
              \o summary
              \o LastK(non_system_of(msgs), c.keep_last_n_messages)

\* C15: with the summarizing strategy on an over-budget history longer than
\* keep_last_n_messages, what trim_messages returns is a message list (not a
\* pending computation, not an error) of the shape system messages, at most
\* one summary, last keep_last_n_messages non-system messages, whether the
\* summarizing model call succeeds or fails.
C15_SummaryReturnsShapedList ==
    ( /\ trim_result # NotRun
      /\ compactor.strategy = "summary"
      /\ count_tokens(trim_input) > compactor_max_tokens(compactor)
      /\ Len(trim_input) > compactor.keep_last_n_messages )
        => /\ trim_result.kind # "coroutine"
           /\ SummaryShape(compactor, trim_input, trim_result.msgs)

resolve_settings_not_none(cfg, defaults) ==
    [enable_compaction |->
        IF cfg.enable_memory_compaction # None
        THEN cfg.enable_memory_compaction
        ELSE defaults.enable_memory_compaction,
     strategy |->
        IF cfg.memory_compaction_strategy # None
        THEN cfg.memory_compaction_strategy
        ELSE defaults.memory_compaction_strategy,
     max_tokens |->
        IF cfg.memory_compaction_max_tokens # NoneInt
        THEN cfg.memory_compaction_max_tokens
        ELSE defaults.memory_compaction_max_tokens,
     max_messages |->
        IF cfg.memory_compaction_max_messages # NoneInt
        THEN cfg.memory_compaction_max_messages
        ELSE defaults.memory_compaction_max_messages]

\* manager-wide defaults an AgentLoopManager can be constructed with
ManagerDefaultsChoices ==
    [enable_memory_compaction : {"True", "False"},
     memory_compaction_strategy : {"token_aware", "hybrid"},
     memory_compaction_max_tokens : {NoneInt, 4000},
     memory_compaction_max_messages : {NoneInt, 20}]

\* C17: the enable flag, strategy, max_tokens and max_messages that
\* _build_and_compile resolves for an agent are each the per-agent value when
\* that value is not null and the manager-wide default otherwise, for the
\* defaults of this manager and for any other defaults.
C17_PerAgentOverridesDefault ==
    last_call.resolved # NoResolved
        => /\ last_call.resolved
                = resolve_settings_not_none(last_call.args, ManagerDefaults)
           /\ \A d \in ManagerDefaultsChoices :
                 resolve_settings(last_call.args, d)
                    = resolve_settings_not_none(last_call.args, d)

\* C18: a register_agent or reload_agent call that builds a graph for
\* settings whose strategy is not one of the four known ones fails with the
\* error naming the invalid strategy, whether compaction is enabled for the
\* agent or not.
C18_UnknownStrategySurfaced ==
    ( /\ last_call.op \in {"register_agent", "reload_agent"}
      /\ last_call.resolved # NoResolved
      /\ last_call.args.memory_compaction_strategy
            \notin CompactionStrategies \cup {None} )
        => last_call.raised = "ValueError: not a valid CompactionStrategy"

carries_tool_calls(r) == ~no_tool_calls(r)

\* C19: one execution of a skill's loop invokes the model at most 10 times;
\* when it has returned, either the last response is the first one without
\* tool calls and its content is the result, or all 10 responses carried tool
\* calls and the result is "Skill execution completed".
C19_SkillLoopCapped ==
    /\ skill_invocations <= 10
    /\ Len(skill_log) <= 10
    /\ skill_pc = "returned"
          => /\ \A i \in 1..(Len(skill_log) - 1) : carries_tool_calls(skill_log[i])
             /\ \/ /\ no_tool_calls(Last(skill_log))
                   /\ skill_result = Last(skill_log).content.text
                \/ /\ Len(skill_log) = 10
                   /\ carries_tool_calls(Last(skill_log))
                   /\ skill_result = "Skill execution completed"
    /\ (Len(skill_log) = 10 /\ carries_tool_calls(Last(skill_log))
          /\ skill_pending = <<>>)
          => skill_pc \in {"tools", "returned"}

\* ten responses with tool calls, and the execution has returned
C19_Witness ==
    /\ skill_pc = "returned"
    /\ skill_invocations = 10
    /\ \A i \in 1..10 : carries_tool_calls(skill_log[i])
    /\ skill_result = "Skill execution completed"

\* execute_with_tools has just appended its message for a response that is
\* not an AIMessage
normalized(r) ==
    /\ ranNode("execute_with_tools")
    /\ r = last_node.response
    /\ ~r.is_ai

C21_ModelErrorPropagates ==
    [][ /\ last_node'.raised = "LLMError"
           => /\ last_node'.node \in {"classify_intent", "execute_with_tools"}
              /\ pc' = "failed"
              /\ messages' = messages
              /\ intent' = intent
              /\ steps' = steps
        /\ pc = "failed" => last_node'.node = "START" ]_vars

\* the reasoning model has failed on its second invocation of a turn, after
\* the tools node had run
C21_Witness ==
    /\ pc = "failed"
    /\ last_node = NodeRecord("execute_with_tools", NoResponse, "LLMError")
    /\ Len(messages) >= 5
    /\ Last(messages).type = "tool"

\* the tool invocation of slot i fails in this step
fails_now(i) ==
    /\ i \in DOMAIN tool_outputs'
    /\ tool_outputs'[i].failed
    /\ ~tool_outputs[i].failed

\* C22 as stated: the step in which an MCP tool's invocation fails ends the
\* turn with the error, and no tool-result message is made of the failure.
C22_ToolErrorPropagates ==
    [][ \A i \in 1..3 :
           fails_now(i) => /\ pc' = "failed"
                           /\ last_node'.raised # "" ]_vars

\* C22, amended: the failure of an MCP tool's invocation is caught by the
\* tool's function and becomes the text "Error: <message>" of an ordinary
\* tool-result message carrying the call's id; the turn does not fail, and
\* when the tools node finishes, that message is appended with the others
\* and the graph goes back to execute_with_tools.
C22_ToolErrorBecomesMessage ==
    [][ /\ \A i \in 1..3 :
              fails_now(i)
                 => /\ pc' = "tools"
                    /\ last_node'.raised = ""
                    /\ tool_outputs'[i].msg =
                          ToolMessage(PyStr("Error: " \o ToolFailure),
                                      Last(messages).tool_calls[i].id)
        /\ last_node'.node = "tools"
              => /\ pc' = "execute_with_tools"
                 /\ messages' = messages
                       \o [i \in DOMAIN tool_outputs |-> tool_outputs[i].msg] ]_vars

\* the tools node has finished a run in which an MCP invocation failed, and
\* the failure's text is the last message of the history
C22_Witness ==
    /\ ranNode("tools")
    /\ pc = "execute_with_tools"
    /\ tool_outputs[Len(tool_outputs)].failed
    /\ Last(messages) = ToolMessage(PyStr("Error: " \o ToolFailure), "call_c")

\* the tools bound to the model in _execute_with_tools
all_tools == skill_tools \o mcp_tools

\* C23: when the tools node has run, every pending tool call naming a tool
\* bound to the model (a skill tool or an MCP tool) has had that tool invoked
\* and has exactly one tool-result message, in the call's position among the
\* appended messages, and the next node is execute_with_tools.
C23_BoundToolsAreInvoked ==
    ranNode("tools") =>
        LET n == Len(tool_outputs)
            request == messages[Len(messages) - n]
        IN /\ pc = "execute_with_tools"
           /\ Len(request.tool_calls) = n
           /\ \A i \in 1..n :
                 request.tool_calls[i].name \in Range(all_tools)
                    => /\ tool_outputs[i].invoked
                       /\ messages[Len(messages) - n + i].type = "tool"
                       /\ messages[Len(messages) - n + i].tool_call_id
                             = request.tool_calls[i].id

\* a thread whose call of op has returned or raised
finished(t, op) == threads[t].op = op /\ threads[t].pc = "done"

\* C24: register_agent and reload_agent calls made concurrently for one agent
\* id behave as if serialized: every register call that has finished returned
\* a handle, all of them the same one, a single graph was compiled as long as
\* nothing was reloaded, and whatever get_agent returned is a handle that was
\* compiled whole.
C24_ConcurrentCallsSerialized ==
    /\ \A t \in ThreadIds :
          finished(t, "register_agent")
             => threads[t].raised = "" /\ threads[t].result # NoHandle
    /\ \A t1, t2 \in ThreadIds :
          finished(t1, "register_agent") /\ finished(t2, "register_agent")
             => threads[t1].result = threads[t2].result
    /\ (\A t \in ThreadIds : threads[t].op # "reload_agent") => compiles <= 1
    /\ \A t \in ThreadIds :
          finished(t, "get_agent") /\ threads[t].result # NoHandle
             => threads[t].result.serial \in 1..compiles

\* C25: the skill tools _build_and_compile selects for an agent's graph are
\* exactly the loaded skills whose ids are in the allowed list; they are all
\* the loaded skills only when the allowed list is null.
C25_SkillToolsAreAllowedAndLoaded ==
    last_call.skill_tools # NoneList
        => LET allowed == last_call.args.allowed_skills
           IN IF allowed = NoneList
              THEN Range(last_call.skill_tools) = langchain_tools
              ELSE Range(last_call.skill_tools)
                      = Range(allowed) \cap langchain_tools

\* task t's get_mcp_manager call returns in this step
returns_manager(t) ==
    /\ mcp_tasks[t].pc # "done" \/ mcp_tasks[t] # mcp_tasks'[t]
    /\ mcp_tasks'[t].op = "get_mcp_manager"
    /\ mcp_tasks'[t].pc = "done"
    /\ mcp_tasks'[t].raised = ""

\* C26: between resets every get_mcp_manager call returns the same manager
\* instance, and the instance is initialized when it is returned, also to a
\* call that overlaps the first call's initialization.
C26_SingletonReturnedInitialized ==
    [][\A t \in TaskIds :
          returns_manager(t)
             => /\ mcp_tasks'[t].result.inst # 0
                /\ mcp_managers'[mcp_tasks'[t].result.inst].initialized
                /\ Cardinality(mcp_returned') = 1]_vars

\* an initialize() call of task t on the manager completes in this step
initialize_completes(t) ==
    \/ /\ \E c \in McpConfigs : initialize(t, 1, c)
       /\ mcp_tasks'[t].pc = "done"
       /\ mcp_tasks'[t].raised = ""
    \/ initialize_resume(t)

\* a close() call of task t on the manager completes in this step
close_completes(t) ==
    \/ close(t, 1) /\ mcp_tasks'[t].pc = "done"
    \/ close_resume(t)

\* C27: an MCPServerManager is initialized exactly between a completed
\* initialize() and the next completed close(): the flag is raised only by an
\* initialize() that completes and lowered only by a close() that completes;
\* an initialize() on an initialized manager changes nothing; close() leaves
\* the manager not initialized with no clients and no tools in the pool; and
\* while it is not initialized get_all_tools and list_servers return empty
\* lists and call_tool raises.
C27_InitializedBetweenInitializeAndClose ==
    [][LET m == mcp_managers[1]
           after == mcp_managers'[1]
       IN /\ (~m.initialized /\ after.initialized)
                => \E t \in TaskIds : initialize_completes(t)
          /\ (m.initialized /\ ~after.initialized)
                => \E t \in TaskIds : close_completes(t)
          /\ \A t \in TaskIds :
                /\ initialize_completes(t) => after.initialized
                /\ (m.initialized /\ \E c \in McpConfigs : initialize(t, 1, c))
                      => after = m
                /\ close_completes(t)
                      => /\ ~after.initialized
                         /\ after.clients = {}
                         /\ after.tools = {}
                /\ (~m.initialized /\ \E all \in BOOLEAN :
                        get_all_tools(t, 1, IF all THEN m.tools ELSE {}))
                      => mcp_tasks'[t].result.items = {} /\ mcp_tasks'[t].raised = ""
                /\ (~m.initialized /\ list_servers(t, 1))
                      => mcp_tasks'[t].result.items = {} /\ mcp_tasks'[t].raised = ""
                /\ (~m.initialized /\ \E n \in CalledToolNames, ok \in BOOLEAN :
                        call_tool(t, 1, n, ok))
                      => mcp_tasks'[t].raised
                            = "RuntimeError: MCP Server Manager not initialized"
      ]_vars

\* the manager has been initialized and closed again, and a call_tool made
\* after the close has raised
C27_Witness ==
    /\ mcp_managers[1].tool_adapter
    /\ ~mcp_managers[1].initialized
    /\ mcp_managers[1].clients = {}
    /\ \E t1, t2 \in TaskIds :
          /\ mcp_tasks[t1].op = "close"
          /\ mcp_tasks[t1].pc = "done"
          /\ mcp_tasks[t2].op = "call_tool"
          /\ mcp_tasks[t2].raised = "RuntimeError: MCP Server Manager not initialized"

\* the keyword labels that hold the intent, and those the intent holds
labels_holding(i) == {k \in Range(skill_intents) : contains(k, i)}

labels_held_by(i) == {k \in Range(skill_intents) : contains(i, k)}

\* C28: after classify_intent a non-empty intent goes to select_skill exactly
\* when it matches a keyword label by substring containment in either
\* direction: the intent holds the label, or the label holds the intent.
C28_EitherDirectionRoutes ==
    (ranNode("classify_intent") /\ intent # "")
        => (pc = "select_skill"
               <=> (labels_held_by(intent) \cup labels_holding(intent)) # {})

\* C28, amended: the match has one direction. The intent goes to select_skill
\* exactly when it holds a keyword label; an intent that is only a part of a
\* label goes to execute_with_tools.
C28_OnlyIntentHoldingLabelRoutes ==
    (ranNode("classify_intent") /\ intent # "")
        => /\ pc = "select_skill" <=> labels_held_by(intent) # {}
           /\ (labels_holding(intent) # {} /\ labels_held_by(intent) = {})
                 => pc = "execute_with_tools"

\* the classifier answered 'review', a part of the label code_review, and
\* the turn went on without select_skill
C28_Witness ==
    /\ ranNode("classify_intent")
    /\ intent = "review"
    /\ labels_holding(intent) = {"code_review"}
    /\ pc = "execute_with_tools"

\* the positions, in registration order, of the allowed skills whose
\* description holds the intent or is held by it
matching_skills(i) ==
    {k \in DOMAIN LoadedSkills :
        /\ LoadedSkills[k].id \in Range(skill_tools)
        /\ \/ contains(lower(LoadedSkills[k].description), i)
           \/ contains(i, lower(LoadedSkills[k].description))}

\* C29: whenever select_skill is run it completes, the next node is
\* execute_with_tools, and current_skill is the id of the first allowed skill
\* in registration order whose description matches the intent, with
\* skill_status pending, or both are null when no skill matches.
C29_SelectSkillCompletes ==
    last_node.node = "select_skill"
        => /\ last_node.raised = ""
           /\ pc = "execute_with_tools"
           /\ IF matching_skills(intent) # {}
              THEN /\ \E k \in matching_skills(intent) :
                         /\ \A j \in matching_skills(intent) : k <= j
                         /\ current_skill = LoadedSkills[k].id
                   /\ skill_status = "pending"
              ELSE current_skill = None /\ skill_status = None

\* execute_with_tools runs to its return statement in this step
executes_with_tools ==
    /\ pc = "execute_with_tools"
    /\ last_node'.node = "execute_with_tools"
    /\ last_node'.raised = ""

\* C30: each execution of execute_with_tools invokes the model once, with the
\* history, and appends exactly one message to the history, an assistant
\* message, whatever the shape of the model's response.
C30_OneInvocationOneAssistantMessage ==
    [][executes_with_tools
          => /\ steps' = steps + 1
             /\ llm_input' = messages
             /\ Len(messages') = Len(messages) + 1
             /\ SubSeq(messages', 1, Len(messages)) = messages
             /\ messages'[Len(messages')].type = "ai"]_vars

\* the second execution of a turn, after the tools node, got a response that
\* is not an AIMessage and whose tool_calls is not a list
C30_Witness ==
    /\ ranNode("execute_with_tools")
    /\ steps = 2
    /\ ~last_node.response.is_ai
    /\ last_node.response.tc_kind = "other"
    /\ messages[Len(messages)].type = "ai"
    /\ \E k \in 1..Len(messages) : messages[k].type = "tool"

\* C31: a turn has ended only when format_result has run; then the history is
\* what the model was last given, the assistant message it answered with, and
\* one more assistant message with that message's content, no tool calls and
\* the state's intent, current_skill and skill_status as its annotations.
C31_FormatResultEndsTheTurn ==
    /\ (pc = "END" /\ turn > 0) => ranNode("format_result")
    /\ ranNode("format_result")
          => LET n == Len(messages)
             IN /\ pc = "END"
                /\ n = Len(llm_input) + 2
                /\ SubSeq(messages, 1, n - 2) = llm_input
                /\ messages[n - 1].type = "ai"
                /\ messages[n - 1].tool_calls = <<>>
                /\ messages[n].type = "ai"
                /\ messages[n].content = messages[n - 1].content
                /\ messages[n].tool_calls = <<>>
                /\ messages[n].additional_kwargs
                      = [intent |-> intent, skill_used |-> current_skill,
                         skill_status |-> skill_status]

\* a second turn has ended after a round through the tools node, with the
\* intent 'review' in the annotations of its result
C31_Witness ==
    /\ ranNode("format_result")
    /\ turn = 2
    /\ pc = "END"
    /\ messages[Len(messages)].additional_kwargs.intent = "review"
    /\ messages[Len(messages) - 2].type = "tool"

\* execute_with_tools has just appended a response with / without tool calls
answered_with_tool_calls ==
    ranNode("execute_with_tools") /\ messages[Len(messages)].tool_calls # <<>>

answered_without_tool_calls ==
    ranNode("execute_with_tools") /\ messages[Len(messages)].tool_calls = <<>>

\* C32: a turn terminates exactly through the absence of pending tool calls.
\* A response without tool calls sends the turn to format_result, and the turn
\* then ends; a response with tool calls sends it to the tools node, however
\* many rounds have been made, and from there back to execute_with_tools.
C32_TurnEndsWhenNoToolCalls ==
    /\ [](answered_without_tool_calls => pc = "format_result")
    /\ [](answered_with_tool_calls => pc = "tools")
    /\ (answered_without_tool_calls ~> pc = "END")
    /\ (answered_with_tool_calls
           ~> (ranNode("tools") /\ pc = "execute_with_tools"))

\* the model has been invoked as often as the bound allows, every answer
\* carried tool calls, and the cycle is back at execute_with_tools
C32_Witness ==
    /\ steps = MaxSteps
    /\ ranNode("tools")
    /\ pc = "execute_with_tools"
    /\ Cardinality({k \in 1..Len(messages) : messages[k].tool_calls # <<>>})
          = MaxSteps

\* the sliding-window strategy has run on the input
sliding_window_ran ==
    /\ trim_result.kind = "list"
    /\ compactor.strategy = "sliding_window"
    /\ trim_input # <<>>
    /\ count_tokens(trim_input) > compactor_max_tokens(compactor)

\* C33: when the sliding-window strategy runs, the non-system messages it
\* keeps are the last max(max_messages, keep_last_n_messages) of the input's
\* (an unset max_messages counting as 0), so never fewer than
\* keep_last_n_messages when the input has that many.
C33_SlidingWindowKeepsMax ==
    sliding_window_ran
        => LET set_max == IF compactor.max_messages = NoneInt THEN 0
                          ELSE compactor.max_messages
               kept == non_system_of(trim_result.msgs)
           IN /\ kept = LastK(non_system_of(trim_input),
                              Max(set_max, compactor.keep_last_n_messages))
              /\ Len(non_system_of(trim_input)) >= compactor.keep_last_n_messages
                    => Len(kept) >= compactor.keep_last_n_messages

\* the token-aware strategy has run on the input
token_aware_ran ==
    /\ trim_result.kind = "list"
    /\ compactor.strategy = "token_aware"
    /\ trim_input # <<>>
    /\ count_tokens(trim_input) > compactor_max_tokens(compactor)

\* C34: the token-aware strategy retains every system message when
\* keep_system_message is set and none otherwise, and the non-system messages
\* it retains are a most-recent run of the input's non-system messages in
\* their order, at least keep_last_n_messages long: the re-admitted ones are a
\* contiguous run ending where the reserved recent ones begin, and nothing
\* older than the first message left out is retained.
C34_TokenAwareRetainsRecentRun ==
    token_aware_ran
        => LET others == non_system_of(trim_input)
               kept == non_system_of(trim_result.msgs)
           IN /\ system_of(trim_result.msgs)
                    = (IF compactor.keep_system_message
                       THEN system_of(trim_input) ELSE <<>>)
              /\ Len(kept) <= Len(others)
              /\ kept = SubSeq(others, Len(others) - Len(kept) + 1, Len(others))
              /\ Len(kept) >= (IF Len(others) < compactor.keep_last_n_messages
                               THEN Len(others)
                               ELSE compactor.keep_last_n_messages)

\* one middle message re-admitted, the tool-call message before it left out,
\* and the one-token message before that left out too although it would fit
C34_Witness ==
    /\ token_aware_ran
    /\ compactor.max_tokens = 52 /\ compactor.keep_last_n_messages = 1
    /\ Len(trim_input) = 4
    /\ trim_input[1] = HumanMessage(PyStr("abcd"))
    /\ trim_input[2].tool_calls # <<>>
    /\ trim_result.msgs = SubSeq(trim_input, 3, 4)
    /\ trim_input[3].type = "human"

\* C35: in a token-aware run each re-admitted middle message satisfied, with
\* the messages re-admitted before it, system tokens + reserved recent tokens
\* + re-admitted tokens + its own tokens <= max_tokens, and the newest middle
\* message left out did not.
C35_ReadmittedIffWithinBudget ==
    token_aware_ran
        => LET others == non_system_of(trim_input)
               recent == LastK(others, compactor.keep_last_n_messages)
               middle == SubSeq(others, 1, Len(others) - Len(recent))
               readmitted == Len(non_system_of(trim_result.msgs)) - Len(recent)
               system_tokens == IF compactor.keep_system_message
                                THEN count_tokens(system_of(trim_input)) ELSE 0
               total(j) == system_tokens + count_tokens(recent)
                             + count_tokens(LastK(middle, j))
           IN /\ readmitted \in 0..Len(middle)
              /\ \A j \in 1..readmitted : total(j) <= compactor_max_tokens(compactor)
              /\ readmitted < Len(middle)
                    => total(readmitted + 1) > compactor_max_tokens(compactor)

\* the hybrid strategy has run on the input
hybrid_ran ==
    /\ trim_result.kind = "list"
    /\ compactor.strategy = "hybrid"
    /\ trim_input # <<>>
    /\ count_tokens(trim_input) > compactor_max_tokens(compactor)

\* what the sliding-window strategy alone returns for the same input
sliding_window_alone ==
    trim_messages([compactor EXCEPT !.strategy = "sliding_window"], trim_input).msgs

\* C36: the hybrid result is the sliding-window result when that is within
\* max_tokens, otherwise the token-aware strategy applied to the
\* sliding-window result; it never has more messages than the
\* sliding-window result.
C36_HybridIsWindowThenTokenAware ==
    hybrid_ran
        => /\ trim_result.msgs
                = (IF count_tokens(sliding_window_alone) <= compactor_max_tokens(compactor)
                   THEN sliding_window_alone
                   ELSE trim_token_aware(compactor, sliding_window_alone))
           /\ Len(trim_result.msgs) <= Len(sliding_window_alone)
           /\ IsSubsequence(non_system_of(trim_result.msgs),
                            non_system_of(sliding_window_alone))

\* the window keeps two of three messages, still over budget, and the
\* token-aware pass drops one more
C36_Witness ==
    /\ hybrid_ran
    /\ count_tokens(sliding_window_alone) > compactor_max_tokens(compactor)
    /\ Len(trim_input) = 3
    /\ Len(sliding_window_alone) = 2
    /\ Len(trim_result.msgs) = 1

\* C37: after any sequence of register_agent and reload_agent calls an agent
\* id has a stored configuration exactly if it has a compiled handle, and a
\* reload of an id without a handle raises the not-found error.
C37_ConfigsMatchHandles ==
    /\ \A agent_id \in AgentIds :
          has_config(agent_configs, agent_id) <=> agents[agent_id] # NoHandle
    /\ (last_call.op = "reload_agent" /\ agents[last_call.agent_id] = NoHandle)
          => last_call.raised = "ValueError: not found"

C39_LaterInvocationsSeeToolResults ==
    [][ (skill_invocations' = skill_invocations + 1 /\ skill_invocations >= 1
         /\ skill_pc' # "raised")
        => /\ skill_chain_input'.tool_results = skill_messages
           /\ Len(skill_chain_input'.tool_results) > Len(skill_chain_input.tool_results)
                 \/ skill_messages = <<>> ]_vars

\* how often m occurs in msgs
occurrences(msgs, m) == Cardinality({i \in DOMAIN msgs : msgs[i] = m})

\* C40: whatever the strategy, the trimmed history holds every message of
\* the input at most as often as the input does, holds at most one message
\* that is not of the input (the summary), and its input messages stand in
\* the input's order: it is the input with messages deleted, also when a
\* system message is among the last keep_last_n_messages.
C40_TrimOnlyDeletes ==
    trim_result.kind \in {"list", "awaited"}
        => /\ \A m \in MessagePool :
                 occurrences(trim_result.msgs, m) <= occurrences(trim_input, m)
           /\ Cardinality({i \in DOMAIN trim_result.msgs :
                              ~isInputMessage(trim_result.msgs[i])}) <= 1
           /\ IsSubsequence(SelectSeq(trim_result.msgs, isInputMessage), trim_input)

====
